---- MODULE Spec2Model ----
(***************************************************************************)
(* State-machine model of the settlement pipeline: wallet.py,              *)
(* token_system.py, voucher.py, compliance.py, ledger.py, transaction.py   *)
(* and offline.py, wired together as PrivacyNetworkSystem does in main.py. *)
(*                                                                         *)
(* Identifiers are uuid4 strings in the code; here the n-th identifier of  *)
(* a kind is the string "<kind><n>", so identifiers are fresh and          *)
(* distinct.  sha256 over a canonical JSON string is modelled as the pair  *)
(* of the hashed payload and the key (a collision-free digest).            *)
(***************************************************************************)
EXTENDS Integers, Sequences, FiniteSets, TLC

(***************************************************************************)
(* Bounds of the model.                                                    *)
(***************************************************************************)
MaxWallets == 2
MaxTokens == 1
MaxVouchers == 1
MaxTx == 1
MaxOffline == 1
MaxEntries == 2
MaxOfflineWallets == 3
MaxAmlEntries == 2
MaxWalletVouchers == 2
MaxWalletTokens == 2
MaxOfflinePerToken == 2
MaxAuditedTransfers == 2
MaxRecentRows == 4

\* Values offered to issue_token and redeem_voucher, limits offered to
\* issue_voucher: below, at and above the compliance threshold.
TokenValues == {50, 150}
VoucherLimits == {100, 150}

\* Python's None for an optional string, and for an optional signature.
None == "None"
NoSignature == [none |-> TRUE]

Id(kind, n) == kind \o ToString(n)

\* datetime.now().isoformat(): every reading of the clock is a value of its
\* own, named after the event that read it (the object constructed, the
\* ledger entry saved, the sync that stored that entry).
Now(event) == "at:" \o event

VARIABLES
    wallets,              \* WalletManager.wallets: id -> Wallet
    tokens,               \* TokenManager.tokens: id -> Token
    vouchers,             \* VoucherManager.vouchers: id -> Voucher
    transactions,         \* TransactionEngine.transactions: id -> Transaction
    aml_registry,         \* ComplianceManager.aml_registry: list of AMLEntry
    authority_contacted,  \* ComplianceManager.authority_contacted
    entries,              \* LedgerManager.entries: entry id -> LedgerEntry
    entry_counter,        \* LedgerManager.entry_counter
    ledger_file,          \* the content of the persisted ledger file
    offline_transactions, \* OfflineManager.offline_transactions
    uuids,                \* how many identifiers of each kind were generated
    last_call,            \* what the call that just returned gave back
    frames                \* the activation records of calls in progress

vars == <<wallets, tokens, vouchers, transactions, aml_registry,
          authority_contacted, entries, entry_counter, ledger_file,
          offline_transactions, uuids, last_call, frames>>

\* The state of the compliance manager, of the ledger manager, and of both
\* transfer pipelines.
compliance_vars == <<aml_registry, authority_contacted>>
ledger_vars == <<entries, entry_counter, ledger_file>>

Procs == {"p1", "p2"}
IdleFrame ==
    [pc |-> "idle", transaction |-> None, value |-> 0,
     moved |-> FALSE, redeemed |-> FALSE]

(***************************************************************************)
(* wallet.py                                                               *)
(***************************************************************************)
\* Wallet.private_key: secrets.token_hex(32), one value per wallet.
PrivateKey(w) == "key_" \o w

NewWallet == [token_balance |-> {}, voucher_balance |-> 0]

wallet_exists(ws, w) == w \in DOMAIN ws

\* An add_token that leaves the wallet's token set as it is.
add_token_skipped(ws, w, t) == ws

\* Wallet.add_token on wallet w of the wallet map ws.
add_token(ws, w, t) == [ws EXCEPT ![w].token_balance = @ \cup {t}]

\* Wallet.remove_token.
remove_token(ws, w, t) == [ws EXCEPT ![w].token_balance = @ \ {t}]

\* Wallet.add_voucher.
add_voucher(ws, w, n) == [ws EXCEPT ![w].voucher_balance = @ + n]

\* A use_voucher that leaves the balance as it is.
use_voucher_keeping_balance(ws, w) == ws

\* Wallet.use_voucher: decrements only a positive balance.
use_voucher(ws, w) ==
    IF ws[w].voucher_balance > 0
    THEN [ws EXCEPT ![w].voucher_balance = @ - 1]
    ELSE ws

\* Wallet.sign_transaction: sha256(json.dumps(data, sort_keys) + private_key).
sign_transaction(w, data) == [data |-> data, key |-> PrivateKey(w)]

\* A verification that compares the signed data and not the key.
verify_signature_of_any_key(w, data, signature) ==
    signature.data = sign_transaction(w, data).data

\* Wallet.verify_signature: recompute and compare.
verify_signature(w, data, signature) == signature = sign_transaction(w, data)

(***************************************************************************)
(* token_system.py                                                         *)
(***************************************************************************)
\* transfer_ownership that leaves the token without an owner.
transfer_ownership_to_nobody(tk, t, new_owner) ==
    [tk EXCEPT ![t].owner_wallet_id = None]

\* transfer_ownership that leaves the owner field as it was.
transfer_ownership_skipped(tk, t, new_owner) == tk

\* Token.transfer_ownership (the new owner is a non-empty wallet id).
transfer_ownership(tk, t, new_owner) ==
    [tk EXCEPT ![t].owner_wallet_id = new_owner]

\* Checks of transfer_token that do not ask who owns the token.
transfer_token_checks_any_owner(tk, ws, t, sender, receiver) ==
    /\ t \in DOMAIN tk
    /\ wallet_exists(ws, sender)
    /\ wallet_exists(ws, receiver)

\* Checks of transfer_token that take the receiving wallet on trust.
transfer_token_checks_sender_only(tk, ws, t, sender, receiver) ==
    /\ t \in DOMAIN tk
    /\ tk[t].owner_wallet_id = sender
    /\ wallet_exists(ws, sender)

\* The checks of TokenManager.transfer_token that precede its mutations.
transfer_token_checks(tk, ws, t, sender, receiver) ==
    /\ t \in DOMAIN tk
    /\ tk[t].owner_wallet_id = sender
    /\ wallet_exists(ws, sender)
    /\ wallet_exists(ws, receiver)

\* transfer_token without its removal from the sender's wallet.
transfer_token_wallets_no_remove(ws, t, sender, receiver) ==
    add_token(ws, receiver, t)

\* The wallet map after transfer_token's remove and add.
transfer_token_wallets(ws, t, sender, receiver) ==
    add_token(remove_token(ws, sender, t), receiver, t)

\* TokenManager.get_tokens_by_owner.
get_tokens_by_owner(tk, w) == {t \in DOMAIN tk : tk[t].owner_wallet_id = w}

\* sum(token.value for token in ts), ts a set of token ids.
RECURSIVE sum_of_values(_, _)
sum_of_values(tk, ts) ==
    IF ts = {} THEN 0
    ELSE LET t == CHOOSE u \in ts : TRUE IN
         tk[t].value + sum_of_values(tk, ts \ {t})

\* TokenManager.get_total_value_by_owner.
get_total_value_by_owner(tk, w) == sum_of_values(tk, get_tokens_by_owner(tk, w))

(***************************************************************************)
(* voucher.py                                                              *)
(***************************************************************************)
\* can_be_used_for_value without its look at the used flag.
can_be_used_for_value_ignoring_used(v, value) == value <= v.value_limit

\* Voucher.can_be_used_for_value.
can_be_used_for_value(v, value) == ~v.is_used /\ value <= v.value_limit

\* Voucher.mark_as_used on voucher vid of the voucher map vs (unused).
mark_as_used(vs, vid, transaction_id) ==
    [vs EXCEPT ![vid].is_used = TRUE,
               ![vid].used_in_transaction = transaction_id]

\* Whether VoucherManager.redeem_voucher returns True.
redeem_voucher_ok(vs, vid, value) ==
    /\ vid \in DOMAIN vs
    /\ can_be_used_for_value(vs[vid], value)

\* A redemption that records no consuming transfer on the voucher.
redeem_voucher_vouchers_unrecorded(vs, vid, transaction_id, value) ==
    IF redeem_voucher_ok(vs, vid, value)
    THEN mark_as_used(vs, vid, None)
    ELSE vs

\* The voucher map after redeem_voucher.
redeem_voucher_vouchers(vs, vid, transaction_id, value) ==
    IF redeem_voucher_ok(vs, vid, value)
    THEN mark_as_used(vs, vid, transaction_id)
    ELSE vs

\* The wallet map after redeem_voucher.
redeem_voucher_wallets(ws, vs, vid, value) ==
    IF redeem_voucher_ok(vs, vid, value)
         /\ wallet_exists(ws, vs[vid].issued_to_wallet_id)
    THEN use_voucher(ws, vs[vid].issued_to_wallet_id)
    ELSE ws

(***************************************************************************)
(* compliance.py.  Risk scores are kept in tenths: the float sums the     *)
(* code can form (0.7, 0.3, 0.7 + 0.3 = 1.0) compare with 0.5 and 0.8 as   *)
(* these integers do.                                                      *)
(***************************************************************************)
HighValueThreshold == 100
HighValueWeight == 7
NonAnonymousWeight == 3
PatternWeight == 5
FlaggedThreshold == 5
EscalationThreshold == 8
PatternAmount == 50
PatternCount == 3

\* "; ".join(reasons)
RECURSIVE Join(_)
Join(reasons) ==
    IF Len(reasons) = 0 THEN ""
    ELSE IF Len(reasons) = 1 THEN reasons[1]
    ELSE reasons[1] \o "; " \o Join(Tail(reasons))

\* ComplianceManager._get_recent_transactions: the mock returns no rows.
get_recent_transactions(wallet_id) == <<>>

\* ComplianceManager._check_suspicious_patterns.
check_suspicious_patterns(transaction) ==
    LET recent == get_recent_transactions(transaction.sender_wallet_id) IN
    Cardinality({i \in DOMAIN recent : recent[i].amount > PatternAmount})
        > PatternCount

\* A risk score whose first rule fires at the threshold itself.
risk_score_from_threshold(transaction, value) ==
      (IF value >= HighValueThreshold THEN HighValueWeight ELSE 0)
    + (IF ~transaction.is_anonymous THEN NonAnonymousWeight ELSE 0)
    + (IF check_suspicious_patterns(transaction) THEN PatternWeight ELSE 0)

\* The risk score check_transaction accumulates.
risk_score(transaction, value) ==
      (IF value > HighValueThreshold THEN HighValueWeight ELSE 0)
    + (IF ~transaction.is_anonymous THEN NonAnonymousWeight ELSE 0)
    + (IF check_suspicious_patterns(transaction) THEN PatternWeight ELSE 0)

\* The reasons check_transaction collects.
risk_reasons(transaction, value) ==
       (IF value > HighValueThreshold
        THEN <<"High value transaction: " \o ToString(value)>> ELSE <<>>)
    \o (IF ~transaction.is_anonymous
        THEN <<"Non-anonymous transaction">> ELSE <<>>)
    \o (IF check_suspicious_patterns(transaction)
        THEN <<"Suspicious transaction pattern detected">> ELSE <<>>)

\* A compliance check that withholds approval from flagged transfers.
check_transaction_withholding(transaction, value) ==
    LET score == risk_score(transaction, value)
        reasons == risk_reasons(transaction, value) IN
    [is_approved |-> score < FlaggedThreshold,
     status |-> IF score >= FlaggedThreshold THEN "flagged" ELSE "approved",
     reason |-> IF Len(reasons) > 0 THEN Join(reasons) ELSE None,
     risk_score |-> score,
     requires_escalation |-> score >= EscalationThreshold]

\* The ComplianceResult check_transaction returns.
check_transaction(transaction, value) ==
    LET score == risk_score(transaction, value)
        reasons == risk_reasons(transaction, value) IN
    [is_approved |-> TRUE,
     status |-> IF score >= EscalationThreshold THEN "flagged"
                ELSE IF score >= FlaggedThreshold THEN "flagged"
                ELSE "approved",
     reason |-> IF Len(reasons) > 0 THEN Join(reasons) ELSE None,
     risk_score |-> score,
     requires_escalation |-> score >= EscalationThreshold]

\* An AML entry whose escalation never reaches the authority.
create_aml_entry_without_notice(transaction, value) ==
    LET score == risk_score(transaction, value) IN
    [transaction_id |-> transaction.transaction_id,
     sender_wallet_id |-> transaction.sender_wallet_id,
     receiver_wallet_id |-> transaction.receiver_wallet_id,
     token_id |-> transaction.token_id,
     amount |-> value,
     timestamp |-> transaction.timestamp,
     reason |-> Join(risk_reasons(transaction, value)),
     risk_score |-> score,
     escalated |-> score >= EscalationThreshold,
     authority_notified |-> FALSE]

\* ComplianceManager._create_aml_entry with _escalate_to_authority.
create_aml_entry(transaction, value) ==
    LET score == risk_score(transaction, value) IN
    [transaction_id |-> transaction.transaction_id,
     sender_wallet_id |-> transaction.sender_wallet_id,
     receiver_wallet_id |-> transaction.receiver_wallet_id,
     token_id |-> transaction.token_id,
     amount |-> value,
     timestamp |-> transaction.timestamp,
     reason |-> Join(risk_reasons(transaction, value)),
     risk_score |-> score,
     escalated |-> score >= EscalationThreshold,
     authority_notified |-> score >= EscalationThreshold]

\* aml_registry after check_transaction.
check_transaction_registry(registry, transaction, value) ==
    IF check_transaction(transaction, value).status = "flagged"
    THEN Append(registry, create_aml_entry(transaction, value))
    ELSE registry

\* authority_contacted after check_transaction.
check_transaction_contacted(contacted, transaction, value) ==
    contacted \/ (/\ check_transaction(transaction, value).status = "flagged"
                  /\ risk_score(transaction, value) >= EscalationThreshold)

\* ComplianceManager.get_flagged_transactions.
get_flagged_transactions(registry) ==
    SelectSeq(registry, LAMBDA entry : entry.risk_score > FlaggedThreshold)

\* ComplianceManager.get_high_risk_transactions.
get_high_risk_transactions(registry) ==
    SelectSeq(registry, LAMBDA entry : entry.risk_score >= EscalationThreshold)

\* _check_suspicious_patterns over the rows a recent-transaction source
\* returns in place of the mock's empty list.
check_suspicious_patterns_over(recent) ==
    Cardinality({i \in DOMAIN recent : recent[i].amount > PatternAmount})
        > PatternCount

\* The risk score check_transaction accumulates over those rows.
risk_score_over(transaction, value, recent) ==
      (IF value > HighValueThreshold THEN HighValueWeight ELSE 0)
    + (IF ~transaction.is_anonymous THEN NonAnonymousWeight ELSE 0)
    + (IF check_suspicious_patterns_over(recent) THEN PatternWeight ELSE 0)

\* The reasons check_transaction collects over those rows.
risk_reasons_over(transaction, value, recent) ==
       (IF value > HighValueThreshold
        THEN <<"High value transaction: " \o ToString(value)>> ELSE <<>>)
    \o (IF ~transaction.is_anonymous
        THEN <<"Non-anonymous transaction">> ELSE <<>>)
    \o (IF check_suspicious_patterns_over(recent)
        THEN <<"Suspicious transaction pattern detected">> ELSE <<>>)

\* The ComplianceResult check_transaction returns over those rows.
check_transaction_over(transaction, value, recent) ==
    LET score == risk_score_over(transaction, value, recent)
        reasons == risk_reasons_over(transaction, value, recent) IN
    [is_approved |-> TRUE,
     status |-> IF score >= EscalationThreshold THEN "flagged"
                ELSE IF score >= FlaggedThreshold THEN "flagged"
                ELSE "approved",
     reason |-> IF Len(reasons) > 0 THEN Join(reasons) ELSE None,
     risk_score |-> score,
     requires_escalation |-> score >= EscalationThreshold]

\* _create_aml_entry with _escalate_to_authority, from the score and the
\* reasons check_transaction hands it.
create_aml_entry_from(transaction, value, score, reasons) ==
    [transaction_id |-> transaction.transaction_id,
     sender_wallet_id |-> transaction.sender_wallet_id,
     receiver_wallet_id |-> transaction.receiver_wallet_id,
     token_id |-> transaction.token_id,
     amount |-> value,
     timestamp |-> transaction.timestamp,
     reason |-> Join(reasons),
     risk_score |-> score,
     escalated |-> score >= EscalationThreshold,
     authority_notified |-> score >= EscalationThreshold]

(***************************************************************************)
(* ledger.py                                                               *)
(***************************************************************************)
\* A classification that looks at anonymity before the AML flag.
entry_type_of_anonymous_first(transaction) ==
    IF transaction.is_anonymous THEN "anonymous"
    ELSE IF transaction.aml_flagged THEN "aml_flagged"
    ELSE "non_anonymous"

\* The classification store_transaction gives an entry.
entry_type_of(transaction) ==
    IF transaction.aml_flagged THEN "aml_flagged"
    ELSE IF transaction.is_anonymous THEN "anonymous"
    ELSE "non_anonymous"

\* The LedgerEntry store_transaction builds; tk is TokenManager.tokens.
ledger_entry(counter, transaction, tk) ==
    [entry_id |-> ToString(counter),
     transaction_id |-> transaction.transaction_id,
     sender_wallet_id |-> transaction.sender_wallet_id,
     receiver_wallet_id |-> transaction.receiver_wallet_id,
     token_id |-> transaction.token_id,
     value |-> IF transaction.token_id \in DOMAIN tk
               THEN tk[transaction.token_id].value ELSE 0,
     is_anonymous |-> transaction.is_anonymous,
     entry_type |-> entry_type_of(transaction),
     timestamp |-> transaction.timestamp,
     metadata |-> [voucher_id |-> transaction.voucher_id,
                   status |-> transaction.status,
                   aml_reason |-> transaction.aml_reason]]

\* LedgerManager.entries after store_transaction.
store_transaction_entries(es, counter, transaction, tk) ==
    [x \in DOMAIN es \cup {ToString(counter)} |->
        IF x = ToString(counter) THEN ledger_entry(counter, transaction, tk)
        ELSE es[x]]

\* LedgerManager._save_ledger: the file written from the entries es at time now.
save_ledger(es, now) ==
    [created |-> now,
     total_entries |-> Cardinality(DOMAIN es),
     entries |-> es]

\* Whether open(self.ledger_file, 'w') succeeds: it raises OSError when the
\* file cannot be opened for writing.
WriteOutcomes == BOOLEAN

\* The ledger file after store_transaction's call of _save_ledger: rewritten
\* in full when the write succeeds, left as it was when open() raises.
save_ledger_file(file, es, now, written) ==
    IF written THEN save_ledger(es, now) ELSE file

\* int(entry_id): the number an entry id was printed from.
entry_number(entry_id) ==
    CHOOSE n \in 0..(MaxEntries + 1) : ToString(n) = entry_id

\* The largest member of a non-empty set of numbers.
Max(S) == CHOOSE n \in S : \A k \in S : k <= n

\* LedgerManager._load_ledger: the entries rebuilt from the file, each under
\* the entry id it carries.
load_ledger_entries(file) ==
    [entry_id \in {file.entries[x].entry_id : x \in DOMAIN file.entries} |->
        LET entry_data == CHOOSE d \in {file.entries[x] : x \in DOMAIN file.entries} :
                              d.entry_id = entry_id IN
        [entry_id |-> entry_data.entry_id,
         transaction_id |-> entry_data.transaction_id,
         sender_wallet_id |-> entry_data.sender_wallet_id,
         receiver_wallet_id |-> entry_data.receiver_wallet_id,
         token_id |-> entry_data.token_id,
         value |-> entry_data.value,
         is_anonymous |-> entry_data.is_anonymous,
         entry_type |-> entry_data.entry_type,
         timestamp |-> entry_data.timestamp,
         metadata |-> entry_data.metadata]]

\* A start-up that resumes the counter at the last id in the file.
load_ledger_counter_at_last_id(file) ==
    IF DOMAIN file.entries = {} THEN 0
    ELSE Max({entry_number(file.entries[x].entry_id) : x \in DOMAIN file.entries})

\* LedgerManager._load_ledger: entry_counter after the file has been read,
\* the maximum of 0 and int(entry_id) + 1 over its entries.
load_ledger_counter(file) ==
    Max({0} \cup {entry_number(file.entries[x].entry_id) + 1 :
                      x \in DOMAIN file.entries})

\* str(n): the decimal digits of a natural number.
RECURSIVE DecimalDigits(_)
DecimalDigits(n) ==
    IF n < 10 THEN <<n>> ELSE Append(DecimalDigits(n \div 10), n % 10)

\* s < t for two digit strings, as Python orders str values.
RECURSIVE DigitsBefore(_, _)
DigitsBefore(s, t) ==
    IF t = <<>> THEN FALSE
    ELSE IF s = <<>> THEN TRUE
    ELSE IF Head(s) # Head(t) THEN Head(s) < Head(t)
    ELSE DigitsBefore(Tail(s), Tail(t))

\* The order sorted(..., key=lambda x: x.entry_id) puts two entry ids in.
entry_id_before(a, b) ==
    DigitsBefore(DecimalDigits(entry_number(a)), DecimalDigits(entry_number(b)))

\* LedgerEntry.to_dict without the metadata.
to_dict_without_metadata(entry) ==
    [entry_id |-> entry.entry_id,
     transaction_id |-> entry.transaction_id,
     sender_wallet_id |-> entry.sender_wallet_id,
     receiver_wallet_id |-> entry.receiver_wallet_id,
     token_id |-> entry.token_id,
     value |-> entry.value,
     is_anonymous |-> entry.is_anonymous,
     entry_type |-> entry.entry_type,
     timestamp |-> entry.timestamp]

\* LedgerEntry.to_dict.
to_dict(entry) ==
    [entry_id |-> entry.entry_id,
     transaction_id |-> entry.transaction_id,
     sender_wallet_id |-> entry.sender_wallet_id,
     receiver_wallet_id |-> entry.receiver_wallet_id,
     token_id |-> entry.token_id,
     value |-> entry.value,
     is_anonymous |-> entry.is_anonymous,
     entry_type |-> entry.entry_type,
     timestamp |-> entry.timestamp,
     metadata |-> entry.metadata]

\* The entry ids of es in the order get_ledger_hash visits them.
sorted_entry_ids(es) ==
    CHOOSE s \in [1..Cardinality(DOMAIN es) -> DOMAIN es] :
        \A i, j \in DOMAIN s : i < j => entry_id_before(s[i], s[j])

\* hashlib.sha256 of a string, taken to be free of collisions: the digest
\* stands for the data it was computed from.
sha256(data) == [sha256 |-> data]

\* LedgerManager.get_ledger_hash over the entries es; DOMAIN es holds the
\* entry ids, as self.entries is keyed by entry_id.
get_ledger_hash(es) ==
    LET ids == sorted_entry_ids(es) IN
    sha256([i \in DOMAIN ids |-> to_dict(es[ids[i]])])

\* list(self.entries.values()): the entries in the order they were put into
\* the dict, which is the order of their entry numbers.
entries_values(es) ==
    LET order == CHOOSE s \in [1..Cardinality(DOMAIN es) -> DOMAIN es] :
                     \A i, j \in DOMAIN s :
                         i < j => entry_number(s[i]) < entry_number(s[j]) IN
    [i \in DOMAIN order |-> es[order[i]]]

\* The members of a list.
Range(s) == {s[i] : i \in DOMAIN s}

\* LedgerManager.get_anonymous_entries.
get_anonymous_entries(es) ==
    SelectSeq(entries_values(es), LAMBDA entry : entry.entry_type = "anonymous")

\* LedgerManager.get_non_anonymous_entries.
get_non_anonymous_entries(es) ==
    SelectSeq(entries_values(es),
              LAMBDA entry : entry.entry_type = "non_anonymous")

\* LedgerManager.get_aml_flagged_entries.
get_aml_flagged_entries(es) ==
    SelectSeq(entries_values(es), LAMBDA entry : entry.entry_type = "aml_flagged")

\* An AML export of the flagged entries alone.
export_aml_loggable_transactions_flagged_only(es) ==
    [i \in DOMAIN get_aml_flagged_entries(es) |->
        to_dict(get_aml_flagged_entries(es)[i])]

\* LedgerManager.export_aml_loggable_transactions: the 'entries' it writes.
export_aml_loggable_transactions(es) ==
    LET aml_entries == get_non_anonymous_entries(es) \o get_aml_flagged_entries(es)
    IN [i \in DOMAIN aml_entries |-> to_dict(aml_entries[i])]

\* The timestamps the ledger's entries carry, in chronological order, which
\* is the order Python's <= gives their ISO strings: that of the object a
\* client hands to store_transaction, then that of the first transfer.
EventTimes == <<Now("txA"), Now("tx1")>>

\* a <= b for two timestamps.
timestamp_at_or_before(a, b) ==
    \E i, j \in DOMAIN EventTimes :
        EventTimes[i] = a /\ EventTimes[j] = b /\ i <= j

\* LedgerManager.get_entries_by_wallet.
get_entries_by_wallet(es, wallet_id) ==
    SelectSeq(entries_values(es),
              LAMBDA entry : \/ entry.sender_wallet_id = wallet_id
                             \/ entry.receiver_wallet_id = wallet_id)

\* LedgerManager.get_entries_by_value_range.
get_entries_by_value_range(es, min_value, max_value) ==
    SelectSeq(entries_values(es),
              LAMBDA entry : min_value <= entry.value /\ entry.value <= max_value)

\* LedgerManager.get_entries_by_date_range.
get_entries_by_date_range(es, start_date, end_date) ==
    SelectSeq(entries_values(es),
              LAMBDA entry : /\ timestamp_at_or_before(start_date, entry.timestamp)
                             /\ timestamp_at_or_before(entry.timestamp, end_date))

\* LedgerManager.query_ledger; query_params is a dict, a function on the
\* keys it holds.
query_ledger(es, query_params) ==
    LET has(key) == key \in DOMAIN query_params
        results0 == entries_values(es)
        results1 == IF has("entry_type")
                    THEN SelectSeq(results0,
                             LAMBDA entry :
                                 entry.entry_type = query_params["entry_type"])
                    ELSE results0
        results2 == IF has("wallet_id")
                    THEN SelectSeq(results1,
                             LAMBDA entry :
                                 \/ entry.sender_wallet_id = query_params["wallet_id"]
                                 \/ entry.receiver_wallet_id = query_params["wallet_id"])
                    ELSE results1
        results3 == IF has("min_value") /\ has("max_value")
                    THEN SelectSeq(results2,
                             LAMBDA entry :
                                 /\ query_params["min_value"] <= entry.value
                                 /\ entry.value <= query_params["max_value"])
                    ELSE results2
        results4 == IF has("start_date") /\ has("end_date")
                    THEN SelectSeq(results3,
                             LAMBDA entry :
                                 /\ timestamp_at_or_before(query_params["start_date"],
                                                           entry.timestamp)
                                 /\ timestamp_at_or_before(entry.timestamp,
                                                           query_params["end_date"]))
                    ELSE results3
    IN results4

(***************************************************************************)
(* transaction.py                                                          *)
(***************************************************************************)
\* Python truthiness of an optional id.
Truthy(x) == x # None /\ x # ""

\* A validation of execute_transfer that takes any voucher id on trust.
validate_transfer_trusting_voucher(ws, tk, vs, sender, receiver, t, v) ==
    IF ~(Truthy(sender) /\ Truthy(receiver) /\ Truthy(t)) THEN "ids required"
    ELSE IF sender = receiver THEN "sender is receiver"
    ELSE IF ~(wallet_exists(ws, sender) /\ wallet_exists(ws, receiver))
         THEN "wallet does not exist"
    ELSE IF t \notin DOMAIN tk THEN "token does not exist"
    ELSE IF tk[t].owner_wallet_id # sender THEN "sender does not own token"
    ELSE "ok"

\* The validation of execute_transfer: "ok", or the ValueError it raises.
validate_transfer(ws, tk, vs, sender, receiver, t, v) ==
    IF ~(Truthy(sender) /\ Truthy(receiver) /\ Truthy(t)) THEN "ids required"
    ELSE IF sender = receiver THEN "sender is receiver"
    ELSE IF ~(wallet_exists(ws, sender) /\ wallet_exists(ws, receiver))
         THEN "wallet does not exist"
    ELSE IF t \notin DOMAIN tk THEN "token does not exist"
    ELSE IF tk[t].owner_wallet_id # sender THEN "sender does not own token"
    ELSE IF ~Truthy(v) THEN "ok"
    ELSE IF v \notin DOMAIN vs THEN "voucher does not exist"
    ELSE IF vs[v].issued_to_wallet_id # sender
         THEN "voucher does not belong to sender"
    ELSE IF ~can_be_used_for_value(vs[v], tk[t].value)
         THEN "voucher cannot be used"
    ELSE "ok"

\* The Transaction execute_transfer constructs (to_dict of it: the status is
\* its value string).
new_transaction(id, sender, receiver, t, v, now) ==
    [transaction_id |-> id,
     sender_wallet_id |-> sender,
     receiver_wallet_id |-> receiver,
     token_id |-> t,
     voucher_id |-> v,
     is_anonymous |-> Truthy(v),
     status |-> "pending",
     timestamp |-> now,
     aml_flagged |-> FALSE,
     aml_reason |-> None,
     signature |-> NoSignature]

\* The transaction with the compliance result recorded on it.
with_compliance(transaction, value) ==
    [transaction EXCEPT
        !.aml_flagged = check_transaction(transaction, value).status = "flagged",
        !.aml_reason = check_transaction(transaction, value).reason]

\* A signing step that leaves the signature empty.
with_signature_left_empty(transaction) == transaction

\* TransactionEngine.get_completed_transactions.
get_completed_transactions(txs) ==
    {txs[id] : id \in {x \in DOMAIN txs : txs[x].status = "completed"}}

\* TransactionEngine.get_failed_transactions.
get_failed_transactions(txs) ==
    {txs[id] : id \in {x \in DOMAIN txs : txs[x].status = "failed"}}

\* TransactionEngine.list_all_transactions.
list_all_transactions(txs) == {txs[id] : id \in DOMAIN txs}

\* The signing step of execute_transfer: the sender signs to_dict() of the
\* transaction as it is at that moment.
with_signature(transaction) ==
    [transaction EXCEPT
        !.signature = sign_transaction(transaction.sender_wallet_id, transaction)]

\* A dict without one key (dict.pop).
Pop(d, key) == [k \in DOMAIN d \ {key} |-> d[k]]

\* TransactionEngine.verify_transaction_signature on the stored map txs.
verify_transaction_signature(txs, ws, id) ==
    /\ id \in DOMAIN txs
    /\ txs[id].signature # NoSignature
    /\ wallet_exists(ws, txs[id].sender_wallet_id)
    /\ verify_signature(txs[id].sender_wallet_id, Pop(txs[id], "signature"),
                        txs[id].signature)

(***************************************************************************)
(* offline.py                                                              *)
(***************************************************************************)
\* The validation of create_offline_transaction: "ok", or the ValueError.
validate_offline(ws, tk, vs, sender, receiver, t, v) ==
    IF ~(Truthy(sender) /\ Truthy(receiver) /\ Truthy(t)) THEN "ids required"
    ELSE IF sender = receiver THEN "sender is receiver"
    ELSE IF ~(wallet_exists(ws, sender) /\ wallet_exists(ws, receiver))
         THEN "wallet does not exist"
    ELSE IF t \notin DOMAIN tk THEN "token does not exist"
    ELSE IF tk[t].owner_wallet_id # sender THEN "sender does not own token"
    ELSE IF ~Truthy(v) THEN "ok"
    ELSE IF v \notin DOMAIN vs THEN "voucher does not exist"
    ELSE IF vs[v].issued_to_wallet_id # sender
         THEN "voucher does not belong to sender"
    ELSE IF ~can_be_used_for_value(vs[v], tk[t].value)
         THEN "voucher cannot be used"
    ELSE "ok"

\* An OfflineTransaction that does not snapshot the token's value.
new_offline_transaction_without_value(id, sender, receiver, t, value, v, now) ==
    [offline_id |-> id,
     sender_wallet_id |-> sender,
     receiver_wallet_id |-> receiver,
     token_id |-> t,
     value |-> 0,
     sender_signature |-> NoSignature,
     receiver_signature |-> NoSignature,
     status |-> "pending",
     created_timestamp |-> now,
     synced_timestamp |-> None,
     voucher_id |-> v,
     is_anonymous |-> Truthy(v)]

\* The OfflineTransaction create_offline_transaction constructs.
new_offline_transaction(id, sender, receiver, t, value, v, now) ==
    [offline_id |-> id,
     sender_wallet_id |-> sender,
     receiver_wallet_id |-> receiver,
     token_id |-> t,
     value |-> value,
     sender_signature |-> NoSignature,
     receiver_signature |-> NoSignature,
     status |-> "pending",
     created_timestamp |-> now,
     synced_timestamp |-> None,
     voucher_id |-> v,
     is_anonymous |-> Truthy(v)]

\* The dict _verify_offline_signature signs: the canonical offline payload.
offline_payload(otx) ==
    [offline_id |-> otx.offline_id,
     sender_wallet_id |-> otx.sender_wallet_id,
     receiver_wallet_id |-> otx.receiver_wallet_id,
     token_id |-> otx.token_id,
     value |-> otx.value,
     voucher_id |-> otx.voucher_id,
     is_anonymous |-> otx.is_anonymous]

\* OfflineManager._verify_offline_signature.
verify_offline_signature(ws, otx, wallet_id, signature) ==
    /\ wallet_exists(ws, wallet_id)
    /\ signature = sign_transaction(wallet_id, offline_payload(otx))

\* sign_offline_transaction accepting a valid signature of any wallet.
sign_offline_ok_any_wallet(ots, ws, id, wallet_id, signature) ==
    /\ id \in DOMAIN ots
    /\ verify_offline_signature(ws, ots[id], wallet_id, signature)

\* Whether sign_offline_transaction returns True.
sign_offline_ok(ots, ws, id, wallet_id, signature) ==
    /\ id \in DOMAIN ots
    /\ verify_offline_signature(ws, ots[id], wallet_id, signature)
    /\ wallet_id \in {ots[id].sender_wallet_id, ots[id].receiver_wallet_id}

\* A signing step that marks the transaction signed at its first signature.
signed_offline_at_first_signature(otx, wallet_id, signature) ==
    LET slot == IF wallet_id = otx.sender_wallet_id
                THEN [otx EXCEPT !.sender_signature = signature]
                ELSE [otx EXCEPT !.receiver_signature = signature] IN
    [slot EXCEPT !.status = "signed"]

\* The offline transaction after an accepted sign_offline_transaction.
signed_offline(otx, wallet_id, signature) ==
    LET slot == IF wallet_id = otx.sender_wallet_id
                THEN [otx EXCEPT !.sender_signature = signature]
                ELSE [otx EXCEPT !.receiver_signature = signature] IN
    IF slot.sender_signature # NoSignature /\ slot.receiver_signature # NoSignature
    THEN [slot EXCEPT !.status = "signed"]
    ELSE slot

\* A gate of sync_with_ledger that only turns pending transactions away.
sync_ready_unless_pending(otx) == otx.status # "pending"

\* The gate of sync_with_ledger: only a fully signed transaction is synced.
sync_ready(otx) == otx.status = "signed"

\* A MockTransaction stamped with the time of the sync instead of the
\* offline transaction's creation time.
mock_transaction_stamped_at_sync(otx) ==
    [transaction_id |-> otx.offline_id,
     sender_wallet_id |-> otx.sender_wallet_id,
     receiver_wallet_id |-> otx.receiver_wallet_id,
     token_id |-> otx.token_id,
     voucher_id |-> otx.voucher_id,
     is_anonymous |-> otx.is_anonymous,
     aml_flagged |-> FALSE,
     aml_reason |-> None,
     timestamp |-> Now("sync"),
     status |-> "completed"]

\* The MockTransaction sync_with_ledger hands to the ledger.
mock_transaction(otx) ==
    [transaction_id |-> otx.offline_id,
     sender_wallet_id |-> otx.sender_wallet_id,
     receiver_wallet_id |-> otx.receiver_wallet_id,
     token_id |-> otx.token_id,
     voucher_id |-> otx.voucher_id,
     is_anonymous |-> otx.is_anonymous,
     aml_flagged |-> FALSE,
     aml_reason |-> None,
     timestamp |-> otx.created_timestamp,
     status |-> "completed"]

\* What a call gave back: whether it succeeded (returned True or an object,
\* rather than False or an exception), and the identifier it returned.
Returned(op, ok, ret) == [op |-> op, ok |-> ok, ret |-> ret]

(***************************************************************************)
(* Initial state: PrivacyNetworkSystem.__init__ with no ledger file.       *)
(***************************************************************************)
Init ==
    /\ wallets = <<>>
    /\ tokens = <<>>
    /\ vouchers = <<>>
    /\ transactions = <<>>
    /\ aml_registry = <<>>
    /\ authority_contacted = FALSE
    /\ entries = <<>>
    /\ entry_counter = 0
    /\ ledger_file = save_ledger(<<>>, Now("init"))
    /\ offline_transactions = <<>>
    /\ uuids = [wallet |-> 0, token |-> 0, voucher |-> 0, tx |-> 0, offline |-> 0]
    /\ last_call = Returned("init", TRUE, None)
    /\ frames = [p \in Procs |-> IdleFrame]

\* No call is in progress: the calls of a sequential execution.
Quiet == \A p \in Procs : frames[p].pc = "idle"

\* A function extended by one key.
Put(f, k, v) == [x \in DOMAIN f \cup {k} |-> IF x = k THEN v ELSE f[x]]

(***************************************************************************)
(* WalletManager.create_wallet                                             *)
(***************************************************************************)
create_wallet_upto(max) ==
    /\ Quiet
    /\ uuids.wallet < max
    /\ LET w == Id("w", uuids.wallet + 1) IN
        /\ wallets' = Put(wallets, w, NewWallet)
        /\ uuids' = [uuids EXCEPT !.wallet = @ + 1]
        /\ last_call' = Returned("create_wallet", TRUE, w)
    /\ UNCHANGED <<tokens, vouchers, transactions, compliance_vars, ledger_vars,
                   offline_transactions, frames>>

create_wallet == create_wallet_upto(MaxWallets)

(***************************************************************************)
(* TokenManager.issue_token                                                *)
(***************************************************************************)
issue_token_upto(max, value, owner) ==
    /\ Quiet
    /\ uuids.token < max
    /\ IF wallet_exists(wallets, owner) /\ value > 0
       THEN LET t == Id("t", uuids.token + 1) IN
            /\ tokens' = Put(tokens, t, [value |-> value, owner_wallet_id |-> owner])
            /\ wallets' = add_token(wallets, owner, t)
            /\ uuids' = [uuids EXCEPT !.token = @ + 1]
            /\ last_call' = Returned("issue_token", TRUE, t)
       ELSE /\ last_call' = Returned("issue_token", FALSE, None)
            /\ UNCHANGED <<tokens, wallets, uuids>>
    /\ UNCHANGED <<vouchers, transactions, compliance_vars, ledger_vars,
                   offline_transactions, frames>>

issue_token(value, owner) == issue_token_upto(MaxTokens, value, owner)

(***************************************************************************)
(* VoucherManager.issue_voucher                                            *)
(***************************************************************************)
issue_voucher_upto(max, wallet_id, value_limit) ==
    /\ Quiet
    /\ uuids.voucher < max
    /\ IF wallet_exists(wallets, wallet_id) /\ value_limit > 0
       THEN LET v == Id("v", uuids.voucher + 1) IN
            /\ vouchers' = Put(vouchers, v,
                   [value_limit |-> value_limit, issued_to_wallet_id |-> wallet_id,
                    is_used |-> FALSE, used_in_transaction |-> None])
            /\ wallets' = add_voucher(wallets, wallet_id, 1)
            /\ uuids' = [uuids EXCEPT !.voucher = @ + 1]
            /\ last_call' = Returned("issue_voucher", TRUE, v)
       ELSE /\ last_call' = Returned("issue_voucher", FALSE, None)
            /\ UNCHANGED <<vouchers, wallets, uuids>>
    /\ UNCHANGED <<tokens, transactions, compliance_vars, ledger_vars,
                   offline_transactions, frames>>

issue_voucher(wallet_id, value_limit) ==
    issue_voucher_upto(MaxVouchers, wallet_id, value_limit)

(***************************************************************************)
(* TokenManager.transfer_token, called on its own                          *)
(***************************************************************************)
transfer_token(t, sender, receiver) ==
    /\ Quiet
    /\ IF transfer_token_checks(tokens, wallets, t, sender, receiver)
       THEN /\ wallets' = transfer_token_wallets(wallets, t, sender, receiver)
            /\ tokens' = transfer_ownership(tokens, t, receiver)
       ELSE UNCHANGED <<wallets, tokens>>
    /\ last_call' = Returned("transfer_token",
                       transfer_token_checks(tokens, wallets, t, sender, receiver), None)
    /\ UNCHANGED <<vouchers, transactions, compliance_vars, ledger_vars,
                   offline_transactions, uuids, frames>>

(***************************************************************************)
(* VoucherManager.redeem_voucher, called on its own                        *)
(***************************************************************************)
redeem_voucher(vid, transaction_id, value) ==
    /\ Quiet
    /\ vouchers' = redeem_voucher_vouchers(vouchers, vid, transaction_id, value)
    /\ wallets' = redeem_voucher_wallets(wallets, vouchers, vid, value)
    /\ last_call' = Returned("redeem_voucher",
                       redeem_voucher_ok(vouchers, vid, value), None)
    /\ UNCHANGED <<tokens, transactions, compliance_vars, ledger_vars,
                   offline_transactions, uuids, frames>>

(***************************************************************************)
(* TransactionEngine.execute_transfer as one call                          *)
(***************************************************************************)
execute_transfer_upto(max, sender, receiver, t, v, written) ==
    LET error == validate_transfer(wallets, tokens, vouchers, sender, receiver, t, v)
        id == Id("tx", uuids.tx + 1)
        value == tokens[t].value
        tx0 == new_transaction(id, sender, receiver, t, v, Now(id))
        tx1 == with_compliance(tx0, value)
        moved == transfer_token_checks(tokens, wallets, t, sender, receiver)
        ws1 == transfer_token_wallets(wallets, t, sender, receiver)
        tk1 == transfer_ownership(tokens, t, receiver)
        redeemed == ~Truthy(v) \/ redeem_voucher_ok(vouchers, v, value)
        vs2 == IF Truthy(v) THEN redeem_voucher_vouchers(vouchers, v, id, value)
               ELSE vouchers
        ws2 == IF Truthy(v) THEN redeem_voucher_wallets(ws1, vouchers, v, value)
               ELSE ws1
        tx2 == [with_signature(tx1) EXCEPT !.status = "completed"]
    IN
    /\ Quiet
    /\ IF error # "ok"
       THEN /\ last_call' = Returned("execute_transfer", FALSE, None)
            /\ UNCHANGED <<wallets, tokens, vouchers, transactions,
                           compliance_vars, ledger_vars, uuids>>
       ELSE /\ uuids.tx < max
            /\ entry_counter < MaxEntries
            /\ uuids' = [uuids EXCEPT !.tx = @ + 1]
            /\ aml_registry' = check_transaction_registry(aml_registry, tx0, value)
            /\ authority_contacted' =
                   check_transaction_contacted(authority_contacted, tx0, value)
            /\ IF ~moved
               THEN /\ last_call' = Returned("execute_transfer", FALSE, None)
                    /\ UNCHANGED <<wallets, tokens, vouchers, transactions,
                                   ledger_vars>>
               ELSE IF ~redeemed
               THEN /\ last_call' = Returned("execute_transfer", FALSE, None)
                    /\ wallets' = ws1
                    /\ tokens' = tk1
                    /\ UNCHANGED <<vouchers, transactions, ledger_vars>>
               ELSE /\ wallets' = ws2
                    /\ tokens' = tk1
                    /\ vouchers' = vs2
                    /\ entries' = store_transaction_entries(entries, entry_counter,
                                                            tx2, tk1)
                    /\ entry_counter' = entry_counter + 1
                    /\ ledger_file' = save_ledger_file(ledger_file, entries',
                                          Now(ToString(entry_counter)), written)
                    /\ IF written
                       THEN /\ transactions' = Put(transactions, id, tx2)
                            /\ last_call' = Returned("execute_transfer", TRUE, id)
                       ELSE /\ UNCHANGED transactions
                            /\ last_call' = Returned("execute_transfer", FALSE, None)
    /\ UNCHANGED <<offline_transactions, frames>>

\* execute_transfer with the ledger write succeeding or failing.
execute_transfer_writing(sender, receiver, t, v, written) ==
    execute_transfer_upto(MaxTx, sender, receiver, t, v, written)

\* execute_transfer while the ledger file can be written.
execute_transfer(sender, receiver, t, v) ==
    execute_transfer_writing(sender, receiver, t, v, TRUE)

(***************************************************************************)
(* OfflineManager.create_offline_transaction                               *)
(***************************************************************************)
create_offline_transaction_upto(max, sender, receiver, t, v) ==
    LET error == validate_offline(wallets, tokens, vouchers, sender, receiver, t, v)
        id == Id("off", uuids.offline + 1)
    IN
    /\ Quiet
    /\ IF error # "ok"
       THEN /\ last_call' = Returned("create_offline_transaction", FALSE, None)
            /\ UNCHANGED <<offline_transactions, uuids>>
       ELSE /\ uuids.offline < max
            /\ offline_transactions' = Put(offline_transactions, id,
                   new_offline_transaction(id, sender, receiver, t,
                                           tokens[t].value, v, Now(id)))
            /\ uuids' = [uuids EXCEPT !.offline = @ + 1]
            /\ last_call' = Returned("create_offline_transaction", TRUE, id)
    /\ UNCHANGED <<wallets, tokens, vouchers, transactions, compliance_vars,
                   ledger_vars, frames>>

create_offline_transaction(sender, receiver, t, v) ==
    create_offline_transaction_upto(MaxOffline, sender, receiver, t, v)

(***************************************************************************)
(* OfflineManager.sign_offline_transaction                                 *)
(***************************************************************************)
sign_offline_transaction(id, wallet_id, signature) ==
    /\ Quiet
    /\ IF sign_offline_ok(offline_transactions, wallets, id, wallet_id, signature)
       THEN offline_transactions' =
                [offline_transactions EXCEPT
                    ![id] = signed_offline(@, wallet_id, signature)]
       ELSE UNCHANGED offline_transactions
    /\ last_call' = Returned("sign_offline_transaction",
                       sign_offline_ok(offline_transactions, wallets, id,
                           wallet_id, signature), None)
    /\ UNCHANGED <<wallets, tokens, vouchers, transactions, compliance_vars,
                   ledger_vars, uuids, frames>>

(***************************************************************************)
(* OfflineManager.sync_with_ledger                                         *)
(***************************************************************************)
sync_with_ledger_writing(id, written) ==
    LET otx == offline_transactions[id]
        moved == transfer_token_checks(tokens, wallets, otx.token_id,
                     otx.sender_wallet_id, otx.receiver_wallet_id)
        ws1 == transfer_token_wallets(wallets, otx.token_id,
                     otx.sender_wallet_id, otx.receiver_wallet_id)
        tk1 == transfer_ownership(tokens, otx.token_id, otx.receiver_wallet_id)
        redeems == Truthy(otx.voucher_id)
        redeemed == ~redeems \/ redeem_voucher_ok(vouchers, otx.voucher_id, otx.value)
    IN
    /\ Quiet
    /\ IF id \notin DOMAIN offline_transactions
       THEN /\ last_call' = Returned("sync_with_ledger", FALSE, None)
            /\ UNCHANGED <<wallets, tokens, vouchers, ledger_vars,
                           offline_transactions>>
       ELSE IF ~sync_ready(otx)
       THEN /\ last_call' = Returned("sync_with_ledger", FALSE, None)
            /\ UNCHANGED <<wallets, tokens, vouchers, ledger_vars,
                           offline_transactions>>
       ELSE IF ~moved
       THEN /\ offline_transactions' =
                   [offline_transactions EXCEPT ![id].status = "failed"]
            /\ last_call' = Returned("sync_with_ledger", FALSE, None)
            /\ UNCHANGED <<wallets, tokens, vouchers, ledger_vars>>
       ELSE IF ~redeemed
       THEN /\ wallets' = ws1
            /\ tokens' = tk1
            /\ offline_transactions' =
                   [offline_transactions EXCEPT ![id].status = "failed"]
            /\ last_call' = Returned("sync_with_ledger", FALSE, None)
            /\ UNCHANGED <<vouchers, ledger_vars>>
       ELSE /\ entry_counter < MaxEntries
            /\ tokens' = tk1
            /\ wallets' = IF redeems
                          THEN redeem_voucher_wallets(ws1, vouchers,
                                                      otx.voucher_id, otx.value)
                          ELSE ws1
            /\ vouchers' = IF redeems
                           THEN redeem_voucher_vouchers(vouchers, otx.voucher_id,
                                                        otx.offline_id, otx.value)
                           ELSE vouchers
            /\ entries' = store_transaction_entries(entries, entry_counter,
                                                    mock_transaction(otx), tk1)
            /\ entry_counter' = entry_counter + 1
            /\ ledger_file' = save_ledger_file(ledger_file, entries',
                                  Now(ToString(entry_counter)), written)
            /\ IF written
               THEN /\ offline_transactions' =
                           [offline_transactions EXCEPT
                               ![id].status = "synced",
                               ![id].synced_timestamp =
                                   Now("sync" \o ToString(entry_counter))]
                    /\ last_call' = Returned("sync_with_ledger", TRUE, None)
               ELSE /\ offline_transactions' =
                           [offline_transactions EXCEPT ![id].status = "failed"]
                    /\ last_call' = Returned("sync_with_ledger", FALSE, None)
    /\ UNCHANGED <<transactions, compliance_vars, uuids, frames>>

\* sync_with_ledger while the ledger file can be written.
sync_with_ledger(id) == sync_with_ledger_writing(id, TRUE)

\* The signatures a client may present for offline transaction id: each
\* wallet's signature over the canonical payload, and a signature over a
\* payload that differs from it.
SignatureArgs(id) ==
    IF id \in DOMAIN offline_transactions
    THEN {sign_transaction(w, offline_payload(offline_transactions[id])) :
              w \in DOMAIN wallets}
         \cup {sign_transaction(offline_transactions[id].sender_wallet_id,
                   [offline_payload(offline_transactions[id]) EXCEPT !.value = 0])}
    ELSE {sign_transaction("w1", [offline_id |-> id])}

(***************************************************************************)
(* The calls a client makes: every combination of existing identifiers,    *)
(* and for each kind of malformed argument one call that has it ("w0",     *)
(* "t0", "v0" and "off0" are identifiers that never exist).                *)
(***************************************************************************)
VoucherArgs == DOMAIN vouchers \cup {None}

BadIssueTokenArgs == {<<0, "w1">>, <<50, "w0">>}
BadIssueVoucherArgs == {<<"w1", 0>>, <<"w0", 100>>}
BadTransferTokenArgs == {<<"t0", "w1", "w2">>, <<"t1", "w0", "w1">>,
                         <<"t1", "w1", "w0">>}
BadTransferArgs == {<<"", "w2", "t1", None>>, <<"w0", "w1", "t1", None>>,
                    <<"w1", "w0", "t1", None>>, <<"w1", "w2", "t0", None>>,
                    <<"w1", "w2", "t1", "v0">>}

Next ==
    \/ create_wallet
    \/ \E value \in TokenValues, owner \in DOMAIN wallets :
           issue_token(value, owner)
    \/ \E a \in BadIssueTokenArgs : issue_token(a[1], a[2])
    \/ \E w \in DOMAIN wallets, limit \in VoucherLimits :
           issue_voucher(w, limit)
    \/ \E a \in BadIssueVoucherArgs : issue_voucher(a[1], a[2])
    \/ \E t \in DOMAIN tokens, s \in DOMAIN wallets, r \in DOMAIN wallets :
           transfer_token(t, s, r)
    \/ \E a \in BadTransferTokenArgs : transfer_token(a[1], a[2], a[3])
    \/ \E v \in DOMAIN vouchers \cup {"v0"}, value \in TokenValues :
           redeem_voucher(v, "ext", value)
    \/ \E s \in DOMAIN wallets, r \in DOMAIN wallets, t \in DOMAIN tokens,
          v \in VoucherArgs :
           execute_transfer(s, r, t, v)
    \/ \E a \in BadTransferArgs : execute_transfer(a[1], a[2], a[3], a[4])
    \/ \E s \in DOMAIN wallets, r \in DOMAIN wallets, t \in DOMAIN tokens,
          v \in VoucherArgs :
           create_offline_transaction(s, r, t, v)
    \/ \E a \in BadTransferArgs :
           create_offline_transaction(a[1], a[2], a[3], a[4])
    \/ \E id \in DOMAIN offline_transactions \cup {"off0"},
          w \in DOMAIN wallets \cup {"w0"} :
           \E signature \in SignatureArgs(id) :
               sign_offline_transaction(id, w, signature)
    \/ \E id \in DOMAIN offline_transactions \cup {"off0"} :
           sync_with_ledger(id)

Spec == Init /\ [][Next]_vars

(***************************************************************************)
(* The offline protocol among three wallets, so that a wallet that is      *)
(* neither the sender nor the receiver of an offline transaction exists:   *)
(* wallets, tokens, and the three OfflineManager operations.               *)
(***************************************************************************)
\* Wallet.sign_transaction called on wallet w by a client.
sign_transaction_call(w, data) ==
    /\ Quiet
    /\ last_call' = Returned("sign_transaction", TRUE, sign_transaction(w, data))
    /\ UNCHANGED <<wallets, tokens, vouchers, transactions, compliance_vars,
                   ledger_vars, offline_transactions, uuids, frames>>

\* Wallet.verify_signature called on wallet w by a client.
verify_signature_call(w, data, signature) ==
    /\ Quiet
    /\ last_call' = Returned("verify_signature",
                             verify_signature(w, data, signature), None)
    /\ UNCHANGED <<wallets, tokens, vouchers, transactions, compliance_vars,
                   ledger_vars, offline_transactions, uuids, frames>>

\* The payloads a client signs: those of the offline transactions.
Payloads == {offline_payload(offline_transactions[id]) :
                id \in DOMAIN offline_transactions}

\* The signatures a client submits for a payload: any wallet's signature of
\* it, and the sender's signature of an altered payload.
Signatures(data) ==
    {sign_transaction(w, data) : w \in DOMAIN wallets}
        \cup {sign_transaction(data.sender_wallet_id, [data EXCEPT !.value = 0])}

NextOffline ==
    \/ \E w \in DOMAIN wallets, data \in Payloads : sign_transaction_call(w, data)
    \/ \E w \in DOMAIN wallets, data \in Payloads :
           \E signature \in Signatures(data) :
               verify_signature_call(w, data, signature)
    \/ create_wallet_upto(MaxOfflineWallets)
    \/ \E value \in TokenValues, owner \in DOMAIN wallets :
           issue_token(value, owner)
    \/ \E s \in DOMAIN wallets, r \in DOMAIN wallets, t \in DOMAIN tokens,
          v \in VoucherArgs :
           create_offline_transaction(s, r, t, v)
    \/ \E id \in DOMAIN offline_transactions \cup {"off0"},
          w \in DOMAIN wallets \cup {"w0"} :
           \E signature \in SignatureArgs(id) :
               sign_offline_transaction(id, w, signature)
    \/ \E id \in DOMAIN offline_transactions \cup {"off0"} :
           sync_with_ledger(id)

SpecOffline == Init /\ [][NextOffline]_vars

(***************************************************************************)
(* ComplianceManager.check_transaction called by a client, as the demo     *)
(* scenarios do, with a transaction object and a token of its own making   *)
(* or with a transfer the engine has stored, next to the online transfers  *)
(* that call it themselves.                                                *)
(***************************************************************************)
\* Token values on both sides of the high-value threshold and at it.
CheckValues == {50, 100, 101, 150}

\* The transaction objects a client hands to check_transaction.
CheckTransactions ==
    {new_transaction("txA", "w1", "w2", "t1", v, Now("txA")) : v \in {None, "v1"}}
        \cup {transactions[id] : id \in DOMAIN transactions}

check_transaction_call(transaction, value) ==
    /\ Quiet
    /\ Len(aml_registry) < MaxAmlEntries
    /\ aml_registry' = check_transaction_registry(aml_registry, transaction, value)
    /\ authority_contacted' =
           check_transaction_contacted(authority_contacted, transaction, value)
    /\ last_call' = Returned("check_transaction", TRUE,
                             check_transaction(transaction, value))
    /\ UNCHANGED <<wallets, tokens, vouchers, transactions, ledger_vars,
                   offline_transactions, uuids, frames>>

\* The rows a recent-transaction source can return: none, as the mock does,
\* or enough rows above the pattern amount for the pattern rule to fire.
RecentRows ==
    {<<>>, [i \in 1..MaxRecentRows |-> [amount |-> PatternAmount + 10]]}

\* check_transaction of a ComplianceManager whose _get_recent_transactions
\* returns the rows recent.
check_transaction_over_call(transaction, value, recent) ==
    LET result == check_transaction_over(transaction, value, recent) IN
    /\ Quiet
    /\ Len(aml_registry) < MaxAmlEntries
    /\ aml_registry' =
           IF result.status = "flagged"
           THEN Append(aml_registry,
                       create_aml_entry_from(transaction, value, result.risk_score,
                           risk_reasons_over(transaction, value, recent)))
           ELSE aml_registry
    /\ authority_contacted' =
           (authority_contacted
               \/ (result.status = "flagged"
                      /\ result.risk_score >= EscalationThreshold))
    /\ last_call' = Returned("check_transaction", TRUE, result)
    /\ UNCHANGED <<wallets, tokens, vouchers, transactions, ledger_vars,
                   offline_transactions, uuids, frames>>

NextCompliance ==
    \/ create_wallet
    \/ \E value \in TokenValues, owner \in DOMAIN wallets :
           issue_token(value, owner)
    \/ \E w \in DOMAIN wallets, limit \in VoucherLimits :
           issue_voucher(w, limit)
    \/ \E s \in DOMAIN wallets, r \in DOMAIN wallets, t \in DOMAIN tokens,
          v \in VoucherArgs :
           execute_transfer(s, r, t, v)
    \/ \E transaction \in CheckTransactions, value \in CheckValues :
           check_transaction_call(transaction, value)

SpecCompliance == Init /\ [][NextCompliance]_vars

(***************************************************************************)
(* The ledger by itself: LedgerManager.store_transaction called by a       *)
(* client with a transaction object of its own or a stored transfer, next  *)
(* to online transfers, and a LedgerManager constructed anew over the same *)
(* ledger file, which takes the place of the one in use.                   *)
(***************************************************************************)
\* The transaction objects a client hands to store_transaction.
StoreTransactions ==
    {[new_transaction("txA", "w1", "w2", "t1", v, Now("txA"))
         EXCEPT !.aml_flagged = flagged] : v \in {None, "v1"}, flagged \in BOOLEAN}
        \cup {transactions[id] : id \in DOMAIN transactions}

store_transaction(transaction) ==
    /\ Quiet
    /\ entry_counter < MaxEntries
    /\ entries' = store_transaction_entries(entries, entry_counter,
                                            transaction, tokens)
    /\ entry_counter' = entry_counter + 1
    /\ ledger_file' = save_ledger(entries', Now(ToString(entry_counter)))
    /\ last_call' = Returned("store_transaction", TRUE, ToString(entry_counter))
    /\ UNCHANGED <<wallets, tokens, vouchers, transactions, compliance_vars,
                   offline_transactions, uuids, frames>>

\* LedgerManager(ledger_file): __init__ with _load_ledger over the file the
\* previous manager wrote.
load_ledger ==
    /\ Quiet
    /\ entries' = load_ledger_entries(ledger_file)
    /\ entry_counter' = load_ledger_counter(ledger_file)
    /\ last_call' = Returned("load_ledger", TRUE, None)
    /\ UNCHANGED <<wallets, tokens, vouchers, transactions, compliance_vars,
                   ledger_file, offline_transactions, uuids, frames>>

\* A client asks for the integrity digest of the ledger.
get_ledger_hash_call ==
    /\ Quiet
    /\ last_call' = Returned("get_ledger_hash", TRUE, get_ledger_hash(entries))
    /\ UNCHANGED <<wallets, tokens, vouchers, transactions, compliance_vars,
                   ledger_vars, offline_transactions, uuids, frames>>

\* A dict holding key with one of the values, or not holding it.
Optional(key, values) == {<<>>} \cup {[k \in {key} |-> v] : v \in values}

\* The dicts a client hands to query_ledger: every combination of the six
\* keys, each present or absent.
QueryParams ==
    {a @@ b @@ c @@ d @@ e @@ f :
        a \in Optional("entry_type", {"non_anonymous"}),
        b \in Optional("wallet_id", {"w1"}),
        c \in Optional("min_value", {HighValueThreshold}),
        d \in Optional("max_value", {HighValueThreshold}),
        e \in Optional("start_date", {Now("tx1")}),
        f \in Optional("end_date", {Now("txA")})}

\* A client queries the ledger.
query_ledger_call(query_params) ==
    /\ Quiet
    /\ last_call' = Returned("query_ledger", TRUE,
                             query_ledger(entries, query_params))
    /\ UNCHANGED <<wallets, tokens, vouchers, transactions, compliance_vars,
                   ledger_vars, offline_transactions, uuids, frames>>

NextLedger ==
    \/ create_wallet
    \/ \E value \in TokenValues, owner \in DOMAIN wallets :
           issue_token(value, owner)
    \/ \E s \in DOMAIN wallets, r \in DOMAIN wallets, t \in DOMAIN tokens :
           execute_transfer(s, r, t, None)
    \/ \E transaction \in StoreTransactions : store_transaction(transaction)
    \/ load_ledger
    \/ get_ledger_hash_call
    \/ \E query_params \in QueryParams : query_ledger_call(query_params)

SpecLedger == Init /\ [][NextLedger]_vars

(***************************************************************************)
(* The voucher life cycle with two vouchers in circulation: issue, redeem  *)
(* by a client, online transfers and the offline protocol.                 *)
(***************************************************************************)
NextVouchers ==
    \/ create_wallet
    \/ \E value \in TokenValues, owner \in DOMAIN wallets :
           issue_token(value, owner)
    \/ \E w \in DOMAIN wallets, limit \in VoucherLimits :
           issue_voucher_upto(MaxWalletVouchers, w, limit)
    \/ \E a \in BadIssueVoucherArgs :
           issue_voucher_upto(MaxWalletVouchers, a[1], a[2])
    \/ \E v \in DOMAIN vouchers \cup {"v0"}, value \in TokenValues :
           redeem_voucher(v, "ext", value)
    \/ \E s \in DOMAIN wallets, r \in DOMAIN wallets, t \in DOMAIN tokens,
          v \in VoucherArgs :
           execute_transfer(s, r, t, v)
    \/ \E s \in DOMAIN wallets, r \in DOMAIN wallets, t \in DOMAIN tokens,
          v \in VoucherArgs :
           create_offline_transaction(s, r, t, v)
    \/ \E id \in DOMAIN offline_transactions, w \in DOMAIN wallets :
           sign_offline_transaction(id, w,
               sign_transaction(w, offline_payload(offline_transactions[id])))
    \/ \E id \in DOMAIN offline_transactions : sync_with_ledger(id)

SpecVouchers == Init /\ [][NextVouchers]_vars

(***************************************************************************)
(* Issuance and TokenManager.transfer_token by themselves, with two tokens *)
(* and two vouchers in circulation.                                        *)
(***************************************************************************)
\* Every wallet id and token id a client may name, known or not.
WalletArgs == DOMAIN wallets \cup {"w0"}
TokenArgs == DOMAIN tokens \cup {"t0"}

NextTokens ==
    \/ create_wallet
    \/ \E value \in TokenValues \cup {0, -1}, owner \in WalletArgs :
           issue_token_upto(MaxWalletTokens, value, owner)
    \/ \E w \in WalletArgs, limit \in VoucherLimits \cup {0, -1} :
           issue_voucher_upto(MaxWalletVouchers, w, limit)
    \/ \E t \in TokenArgs, s \in WalletArgs, r \in WalletArgs :
           transfer_token(t, s, r)

SpecTokens == Init /\ [][NextTokens]_vars

(***************************************************************************)
(* Compliance checks with a recent-transaction source plugged in.          *)
(***************************************************************************)
NextPatterns ==
    \/ create_wallet
    \/ \E value \in TokenValues, owner \in DOMAIN wallets :
           issue_token(value, owner)
    \/ \E s \in DOMAIN wallets, r \in DOMAIN wallets, t \in DOMAIN tokens :
           execute_transfer(s, r, t, None)
    \/ \E transaction \in CheckTransactions, value \in CheckValues,
          recent \in RecentRows :
           check_transaction_over_call(transaction, value, recent)

SpecPatterns == Init /\ [][NextPatterns]_vars

(***************************************************************************)
(* Two tokens moved by every operation that moves a token: transfer_token, *)
(* execute_transfer, and an offline transfer created, signed and synced.   *)
(***************************************************************************)
NextValue ==
    \/ create_wallet
    \/ \E value \in TokenValues \cup {0, -1}, owner \in WalletArgs :
           issue_token_upto(MaxWalletTokens, value, owner)
    \/ \E t \in TokenArgs, s \in WalletArgs, r \in WalletArgs :
           transfer_token(t, s, r)
    \/ \E s \in DOMAIN wallets, r \in DOMAIN wallets, t \in DOMAIN tokens :
           execute_transfer(s, r, t, None)
    \/ \E s \in DOMAIN wallets, r \in DOMAIN wallets, t \in DOMAIN tokens :
           create_offline_transaction(s, r, t, None)
    \/ \E id \in DOMAIN offline_transactions, w \in DOMAIN wallets :
           sign_offline_transaction(id, w,
               sign_transaction(w, offline_payload(offline_transactions[id])))
    \/ \E id \in DOMAIN offline_transactions : sync_with_ledger(id)

SpecValue == Init /\ [][NextValue]_vars

(***************************************************************************)
(* Online transfers only: several execute_transfer calls in a row, with    *)
(* and without a voucher, of low and high values, the ledger write         *)
(* succeeding or failing.                                                  *)
(***************************************************************************)
NextAudit ==
    \/ create_wallet
    \/ \E value \in TokenValues, owner \in DOMAIN wallets :
           issue_token_upto(MaxWalletTokens, value, owner)
    \/ \E w \in DOMAIN wallets, limit \in VoucherLimits : issue_voucher(w, limit)
    \/ \E s \in DOMAIN wallets, r \in DOMAIN wallets, t \in DOMAIN tokens,
          v \in VoucherArgs, written \in WriteOutcomes :
           execute_transfer_upto(MaxAuditedTransfers, s, r, t, v, written)

SpecAudit == Init /\ [][NextAudit]_vars

(***************************************************************************)
(* Offline double-spending: two offline transactions over one token, the   *)
(* parties' signatures, synchronisation, and transfer_token calls that may *)
(* bring the token back.                                                   *)
(***************************************************************************)
NextDoubleSpend ==
    \/ create_wallet
    \/ \E value \in TokenValues, owner \in DOMAIN wallets :
           issue_token(value, owner)
    \/ \E s \in DOMAIN wallets, r \in DOMAIN wallets, t \in DOMAIN tokens :
           create_offline_transaction_upto(MaxOfflinePerToken, s, r, t, None)
    \/ \E id \in DOMAIN offline_transactions, w \in DOMAIN wallets :
           sign_offline_transaction(id, w,
               sign_transaction(w, offline_payload(offline_transactions[id])))
    \/ \E id \in DOMAIN offline_transactions : sync_with_ledger(id)
    \/ \E t \in DOMAIN tokens, s \in DOMAIN wallets, r \in DOMAIN wallets :
           transfer_token(t, s, r)

SpecDoubleSpend == Init /\ [][NextDoubleSpend]_vars

(***************************************************************************)
(* The same system on a disk that may refuse a write: a call of            *)
(* _save_ledger from store_transaction either rewrites the ledger file or  *)
(* raises from open().  Spec above is the system while every write         *)
(* succeeds.                                                               *)
(***************************************************************************)
NextWriteFaults ==
    \/ create_wallet
    \/ \E value \in TokenValues, owner \in DOMAIN wallets :
           issue_token(value, owner)
    \/ \E w \in DOMAIN wallets, limit \in VoucherLimits :
           issue_voucher(w, limit)
    \/ \E t \in DOMAIN tokens, s \in DOMAIN wallets, r \in DOMAIN wallets :
           transfer_token(t, s, r)
    \/ \E s \in DOMAIN wallets, r \in DOMAIN wallets, t \in DOMAIN tokens,
          v \in VoucherArgs, written \in WriteOutcomes :
           execute_transfer_writing(s, r, t, v, written)
    \/ \E s \in DOMAIN wallets, r \in DOMAIN wallets, t \in DOMAIN tokens,
          v \in VoucherArgs :
           create_offline_transaction(s, r, t, v)
    \/ \E id \in DOMAIN offline_transactions, w \in DOMAIN wallets :
           \E signature \in SignatureArgs(id) :
               sign_offline_transaction(id, w, signature)
    \/ \E id \in DOMAIN offline_transactions, written \in WriteOutcomes :
           sync_with_ledger_writing(id, written)

SpecWriteFaults == Init /\ [][NextWriteFaults]_vars

(***************************************************************************)
(* Two threads inside TransactionEngine.execute_transfer at once.  The     *)
(* engine, the managers and their dictionaries are shared and nothing      *)
(* takes a lock, so the threads interleave between statements.  Each       *)
(* thread makes one call; frames[p] is its activation record: where it is  *)
(* (pc), its local Transaction object and token value, and what its calls  *)
(* to transfer_token and redeem_voucher returned.                          *)
(***************************************************************************)
\* The call of thread p ends by returning its transaction, or (ok = FALSE)
\* by raising: the except clause marks the transaction failed and re-raises.
Return(p, ok) ==
    /\ frames' = [frames EXCEPT
                     ![p].pc = "done",
                     ![p].transaction.status = IF ok THEN @ ELSE "failed"]
    /\ last_call' = Returned("execute_transfer", ok,
                             IF ok THEN frames[p].transaction.transaction_id
                             ELSE None)

\* Lines 84-145: validation, the Transaction object, the compliance check.
et_validate(p, sender, receiver, t, v) ==
    LET error == validate_transfer(wallets, tokens, vouchers, sender, receiver, t, v)
        id == Id("tx", uuids.tx + 1)
        value == tokens[t].value
        tx0 == new_transaction(id, sender, receiver, t, v, Now(id))
    IN
    /\ frames[p].pc = "idle"
    /\ IF error # "ok"
       THEN /\ frames' = [frames EXCEPT ![p].pc = "rejected"]
            /\ last_call' = Returned("execute_transfer", FALSE, None)
            /\ UNCHANGED <<compliance_vars, uuids>>
       ELSE /\ uuids' = [uuids EXCEPT !.tx = @ + 1]
            /\ aml_registry' = check_transaction_registry(aml_registry, tx0, value)
            /\ authority_contacted' =
                   check_transaction_contacted(authority_contacted, tx0, value)
            /\ frames' = [frames EXCEPT
                             ![p].pc = "transfer_token",
                             ![p].transaction = with_compliance(tx0, value),
                             ![p].value = value]
            /\ UNCHANGED last_call
    /\ UNCHANGED <<wallets, tokens, vouchers, transactions, ledger_vars,
                   offline_transactions>>

\* transfer_token lines 92-106: the token, owner and wallet checks.
tt_checks(p) ==
    LET tx == frames[p].transaction IN
    /\ frames[p].pc = "transfer_token"
    /\ IF transfer_token_checks(tokens, wallets, tx.token_id,
                                tx.sender_wallet_id, tx.receiver_wallet_id)
       THEN frames' = [frames EXCEPT ![p].pc = "remove_token"] /\ UNCHANGED last_call
       ELSE Return(p, FALSE)
    /\ UNCHANGED <<wallets, tokens, vouchers, transactions, compliance_vars,
                   ledger_vars, offline_transactions, uuids>>

\* transfer_token lines 108-111: the token leaves the sender's wallet.
tt_remove_token(p) ==
    LET tx == frames[p].transaction IN
    /\ frames[p].pc = "remove_token"
    /\ wallets' = remove_token(wallets, tx.sender_wallet_id, tx.token_id)
    /\ frames' = [frames EXCEPT ![p].pc = "add_token"]
    /\ UNCHANGED <<tokens, vouchers, transactions, compliance_vars, ledger_vars,
                   offline_transactions, uuids, last_call>>

\* transfer_token lines 113-116: the token enters the receiver's wallet.
tt_add_token(p) ==
    LET tx == frames[p].transaction IN
    /\ frames[p].pc = "add_token"
    /\ wallets' = add_token(wallets, tx.receiver_wallet_id, tx.token_id)
    /\ frames' = [frames EXCEPT ![p].pc = "transfer_ownership"]
    /\ UNCHANGED <<tokens, vouchers, transactions, compliance_vars, ledger_vars,
                   offline_transactions, uuids, last_call>>

\* transfer_token lines 118-121: the owner field is set and True returned.
tt_transfer_ownership(p) ==
    LET tx == frames[p].transaction IN
    /\ frames[p].pc = "transfer_ownership"
    /\ tokens' = transfer_ownership(tokens, tx.token_id, tx.receiver_wallet_id)
    /\ frames' = [frames EXCEPT
                     ![p].moved = TRUE,
                     ![p].pc = IF Truthy(tx.voucher_id) THEN "redeem_voucher"
                               ELSE "sign"]
    /\ UNCHANGED <<wallets, vouchers, transactions, compliance_vars, ledger_vars,
                   offline_transactions, uuids, last_call>>

\* Lines 158-165: the call to redeem_voucher.
et_redeem_voucher(p) ==
    LET tx == frames[p].transaction
        v == tx.voucher_id
        value == frames[p].value
    IN
    /\ frames[p].pc = "redeem_voucher"
    /\ IF redeem_voucher_ok(vouchers, v, value)
       THEN /\ vouchers' = redeem_voucher_vouchers(vouchers, v,
                                                   tx.transaction_id, value)
            /\ wallets' = redeem_voucher_wallets(wallets, vouchers, v, value)
            /\ frames' = [frames EXCEPT ![p].redeemed = TRUE,
                                        ![p].pc = "sign"]
            /\ UNCHANGED last_call
       ELSE /\ Return(p, FALSE)
            /\ UNCHANGED <<vouchers, wallets>>
    /\ UNCHANGED <<tokens, transactions, compliance_vars, ledger_vars,
                   offline_transactions, uuids>>

\* Lines 167-174: sign, then mark the transaction completed.
et_sign(p) ==
    /\ frames[p].pc = "sign"
    /\ frames' = [frames EXCEPT
                     ![p].pc = "store_transaction",
                     ![p].transaction =
                         [with_signature(@) EXCEPT !.status = "completed"]]
    /\ UNCHANGED <<wallets, tokens, vouchers, transactions, compliance_vars,
                   ledger_vars, offline_transactions, uuids, last_call>>

\* Lines 176-183: store in the ledger, whose write of the file may raise,
\* then in the engine, and return.
et_store_transaction(p, written) ==
    LET tx == frames[p].transaction IN
    /\ frames[p].pc = "store_transaction"
    /\ entries' = store_transaction_entries(entries, entry_counter, tx, tokens)
    /\ entry_counter' = entry_counter + 1
    /\ ledger_file' = save_ledger_file(ledger_file, entries',
                          Now(ToString(entry_counter)), written)
    /\ transactions' = IF written THEN Put(transactions, tx.transaction_id, tx)
                       ELSE transactions
    /\ Return(p, written)
    /\ UNCHANGED <<wallets, tokens, vouchers, compliance_vars,
                   offline_transactions, uuids>>

NextConc ==
    \/ create_wallet
    \/ \E value \in TokenValues, owner \in DOMAIN wallets :
           issue_token(value, owner)
    \/ \E w \in DOMAIN wallets, limit \in VoucherLimits :
           issue_voucher(w, limit)
    \/ \E p \in Procs, s \in DOMAIN wallets, r \in DOMAIN wallets,
          t \in DOMAIN tokens, v \in VoucherArgs :
           et_validate(p, s, r, t, v)
    \/ \E p \in Procs : tt_checks(p)
    \/ \E p \in Procs : tt_remove_token(p)
    \/ \E p \in Procs : tt_add_token(p)
    \/ \E p \in Procs : tt_transfer_ownership(p)
    \/ \E p \in Procs : et_redeem_voucher(p)
    \/ \E p \in Procs : et_sign(p)
    \/ \E p \in Procs, written \in WriteOutcomes : et_store_transaction(p, written)

SpecConc == Init /\ [][NextConc]_vars

(***************************************************************************)
(* Properties                                                              *)
(***************************************************************************)
\* The wallets whose token set holds token t.
Holders(ws, t) == {w \in DOMAIN ws : t \in ws[w].token_balance}

OfflineArgs == DOMAIN offline_transactions \cup {"off0"}

\* C1 (as stated): every issued token is in the token set of exactly one
\* wallet, and after every successful transfer (transfer_token,
\* execute_transfer, sync_with_ledger) the old owner's set excludes the token
\* and the new owner's set includes it.
C1_OwnershipExclusive ==
    [][/\ \A t \in DOMAIN tokens' : Cardinality(Holders(wallets', t)) = 1
       /\ \A t \in DOMAIN tokens, s \in DOMAIN wallets, r \in DOMAIN wallets :
            transfer_token(t, s, r) /\ last_call'.ok
                => /\ t \notin wallets'[s].token_balance
                   /\ t \in wallets'[r].token_balance]_vars

\* C1 (amended): every issued token is in the token set of exactly one
\* wallet; after a successful transfer the new owner's set includes the
\* token, and the old owner's set excludes it when the old owner is not also
\* the new owner (transfer_token accepts sender = receiver and then leaves
\* the token where it is).
C1_OwnershipUnique ==
    [][/\ \A t \in DOMAIN tokens' : Cardinality(Holders(wallets', t)) = 1
       /\ \A t \in DOMAIN tokens, s \in DOMAIN wallets, r \in DOMAIN wallets :
            transfer_token(t, s, r) /\ last_call'.ok
                => /\ s # r => t \notin wallets'[s].token_balance
                   /\ t \in wallets'[r].token_balance
       /\ \A s \in DOMAIN wallets, r \in DOMAIN wallets, t \in DOMAIN tokens,
            v \in VoucherArgs :
            execute_transfer(s, r, t, v) /\ last_call'.ok
                => /\ s # r
                   /\ t \notin wallets'[s].token_balance
                   /\ t \in wallets'[r].token_balance
       /\ \A id \in DOMAIN offline_transactions :
            sync_with_ledger(id) /\ last_call'.ok
                => LET otx == offline_transactions[id] IN
                   /\ otx.sender_wallet_id # otx.receiver_wallet_id
                   /\ otx.token_id \notin wallets'[otx.sender_wallet_id].token_balance
                   /\ otx.token_id \in wallets'[otx.receiver_wallet_id].token_balance]_vars

\* A transfer_token call has just moved a token into another wallet after an
\* online transfer had moved it before.
C1_Witness ==
    /\ last_call.op = "transfer_token" /\ last_call.ok
    /\ \E id \in DOMAIN transactions :
           Holders(wallets, transactions[id].token_id)
               = {transactions[id].sender_wallet_id}

\* C2: redeem_voucher succeeds exactly when the voucher exists, is unused and
\* the value is within its limit; a used voucher stays used, with the same
\* consuming transaction, whatever is called; and a failing redeem leaves
\* every voucher and every wallet's voucher count unchanged.
C2_RedeemOnce ==
    [][/\ \A v \in DOMAIN vouchers \cup {"v0"}, value \in TokenValues :
            redeem_voucher(v, "ext", value)
                => /\ last_call'.ok <=> /\ v \in DOMAIN vouchers
                                        /\ ~vouchers[v].is_used
                                        /\ value <= vouchers[v].value_limit
                   /\ last_call'.ok => /\ vouchers'[v].is_used
                                       /\ vouchers'[v].used_in_transaction = "ext"
                   /\ ~last_call'.ok
                        => /\ vouchers' = vouchers
                           /\ \A w \in DOMAIN wallets :
                                  wallets'[w].voucher_balance
                                      = wallets[w].voucher_balance
       /\ \A v \in DOMAIN vouchers :
            vouchers[v].is_used
                => /\ vouchers'[v].is_used
                   /\ vouchers'[v].used_in_transaction
                          = vouchers[v].used_in_transaction]_vars

\* A redeem_voucher call has just failed on a voucher that an earlier
\* redeem_voucher call had used.
C2_Witness ==
    /\ last_call.op = "redeem_voucher" /\ ~last_call.ok
    /\ \E v \in DOMAIN vouchers :
           vouchers[v].is_used /\ vouchers[v].used_in_transaction = "ext"

\* C3: the status of an offline transaction changes only along
\* pending -> signed, signed -> synced and signed -> failed, and once it is
\* synced or failed no call changes any field of the record.
C3_OfflineStatusEdges ==
    [][\A id \in DOMAIN offline_transactions :
        LET before == offline_transactions[id]
            after == offline_transactions'[id] IN
        /\ before.status # after.status
             => <<before.status, after.status>>
                    \in {<<"pending", "signed">>, <<"signed", "synced">>,
                         <<"signed", "failed">>}
        /\ before.status \in {"synced", "failed"} => after = before]_vars

\* C4: sync_with_ledger on an unknown offline id, or on an offline
\* transaction that is not signed, returns False and changes no token, no
\* wallet, no voucher, no ledger entry and no offline transaction.
C4_SyncNeedsSigned ==
    [][\A id \in OfflineArgs :
        /\ sync_with_ledger(id)
        /\ \/ id \notin DOMAIN offline_transactions
           \/ offline_transactions[id].status # "signed"
        => /\ ~last_call'.ok
           /\ UNCHANGED <<tokens, wallets, vouchers, entries, entry_counter,
                          ledger_file, offline_transactions, transactions,
                          aml_registry>>]_vars

\* sync_with_ledger has just refused an offline transaction that was synced
\* before.
C4_Witness ==
    /\ last_call.op = "sync_with_ledger" /\ ~last_call.ok
    /\ \E id \in DOMAIN offline_transactions :
           offline_transactions[id].status = "synced"

\* The risk score the scoring rules give a ledger entry's transfer.
EntryScore(e) ==
      (IF e.value > HighValueThreshold THEN HighValueWeight ELSE 0)
    + (IF ~e.is_anonymous THEN NonAnonymousWeight ELSE 0)

\* C5: every settled transfer (every ledger entry, written by
\* execute_transfer or by sync_with_ledger) whose score is at least 0.5 has
\* an AML registry entry and is classified AML-flagged, and that AML entry
\* is escalated when the score is at least 0.8.
C5_SettledIsScored ==
    \A x \in DOMAIN entries :
        EntryScore(entries[x]) >= FlaggedThreshold
            => /\ entries[x].entry_type = "aml_flagged"
               /\ \E i \in DOMAIN aml_registry :
                    /\ aml_registry[i].transaction_id = entries[x].transaction_id
                    /\ EntryScore(entries[x]) >= EscalationThreshold
                           => aml_registry[i].escalated

\* C6: verify_transaction_signature is true of every stored transfer.
C6_StoredSignatureVerifies ==
    \A id \in DOMAIN transactions :
        verify_transaction_signature(transactions, wallets, id)

\* The ledger entries carrying transfer id.
EntriesOf(es, id) == {x \in DOMAIN es : es[x].transaction_id = id}

\* C9: when execute_transfer(sender, receiver, token, voucher?) succeeds the
\* token's owner is the receiver, the voucher (if given) is used by the new
\* transfer, the transfer is stored completed with anonymous = (a voucher
\* was given), and exactly one ledger entry, carrying the new transfer id,
\* has been appended.
C9_ExecuteEffects ==
    [][\A s \in DOMAIN wallets, r \in DOMAIN wallets, t \in DOMAIN tokens,
         v \in VoucherArgs :
        execute_transfer(s, r, t, v) /\ last_call'.ok
            => LET id == last_call'.ret IN
               /\ tokens'[t].owner_wallet_id = r
               /\ Truthy(v) => /\ vouchers'[v].is_used
                               /\ vouchers'[v].used_in_transaction = id
               /\ id \notin DOMAIN transactions
               /\ id \in DOMAIN transactions'
               /\ transactions'[id].status = "completed"
               /\ transactions'[id].is_anonymous = Truthy(v)
               /\ Cardinality(EntriesOf(entries', id)) = 1
               /\ EntriesOf(entries, id) = {}
               /\ Cardinality(DOMAIN entries') = Cardinality(DOMAIN entries) + 1
               /\ \A x \in DOMAIN entries : entries'[x] = entries[x]]_vars

\* execute_transfer has just completed a transfer that spent a voucher.
C9_Witness ==
    /\ last_call.op = "execute_transfer" /\ last_call.ok
    /\ transactions[last_call.ret].is_anonymous
    /\ vouchers[transactions[last_call.ret].voucher_id].is_used

\* C10: when sync_with_ledger succeeds the token is owned by the receiver,
\* the voucher (if any) is used by the offline id, the status is synced with
\* a sync timestamp, and exactly one ledger entry has been appended, whose
\* transfer id is the offline id and whose timestamp is the creation
\* timestamp of the offline transaction.
C10_SyncEffects ==
    [][\A id \in DOMAIN offline_transactions :
        sync_with_ledger(id) /\ last_call'.ok
            => LET otx == offline_transactions'[id]
                   added == DOMAIN entries' \ DOMAIN entries IN
               /\ offline_transactions[id].status = "signed"
               /\ tokens'[otx.token_id].owner_wallet_id = otx.receiver_wallet_id
               /\ Truthy(otx.voucher_id)
                    => /\ vouchers'[otx.voucher_id].is_used
                       /\ vouchers'[otx.voucher_id].used_in_transaction = id
               /\ otx.status = "synced"
               /\ otx.synced_timestamp # None
               /\ Cardinality(added) = 1
               /\ \A x \in added :
                    /\ entries'[x].transaction_id = id
                    /\ entries'[x].timestamp = otx.created_timestamp
               /\ \A x \in DOMAIN entries : entries'[x] = entries[x]]_vars

\* sync_with_ledger has just settled an offline transaction that spent a
\* voucher.
C10_Witness ==
    /\ last_call.op = "sync_with_ledger" /\ last_call.ok
    /\ \E id \in DOMAIN offline_transactions :
        /\ offline_transactions[id].status = "synced"
        /\ offline_transactions[id].is_anonymous
        /\ EntriesOf(entries, id) # {}

\* Thread p's call has moved its token or redeemed its voucher.
Acted(p) == frames[p].moved \/ frames[p].redeemed

\* The calls of threads p and q name the same token or the same voucher.
SameResource(p, q) ==
    \/ frames[p].transaction.token_id = frames[q].transaction.token_id
    \/ /\ Truthy(frames[p].transaction.voucher_id)
       /\ frames[p].transaction.voucher_id = frames[q].transaction.voucher_id

\* C7: of two concurrent execute_transfer calls that name the same token or
\* the same voucher, at most one moves the token or redeems the voucher;
\* the other one changes no token and no voucher.
C7_OnlyOneActs ==
    \A p \in Procs, q \in Procs :
        p # q /\ Acted(p) /\ Acted(q) => ~SameResource(p, q)

\* C8: no state between the statements of transfer_token shows a token in
\* no wallet's token set, in two wallets' token sets, or with an owner field
\* that disagrees with the wallet set that holds it.
C8_NoIntermediateState ==
    \A t \in DOMAIN tokens : Holders(wallets, t) = {tokens[t].owner_wallet_id}

\* The step is a call of one of the operations ops: every call records the
\* operation called in last_call when it returns.
Called(ops) == last_call'.op \in ops

\* The argument tuples the model offers execute_transfer and
\* create_offline_transaction.
TransferArgs ==
    ((DOMAIN wallets) \X (DOMAIN wallets) \X (DOMAIN tokens) \X VoucherArgs)
        \cup BadTransferArgs

\* The arguments are to be rejected: a missing id, sender = receiver, an
\* unknown wallet, an unknown token, a token the sender does not own, or a
\* voucher that is unknown, not issued to the sender, used or over its limit.
Rejected(s, r, t, v) ==
    \/ ~Truthy(s) \/ ~Truthy(r) \/ ~Truthy(t)
    \/ s = r
    \/ s \notin DOMAIN wallets \/ r \notin DOMAIN wallets
    \/ t \notin DOMAIN tokens
    \/ tokens[t].owner_wallet_id # s
    \/ /\ Truthy(v)
       /\ \/ v \notin DOMAIN vouchers
          \/ vouchers[v].issued_to_wallet_id # s
          \/ vouchers[v].is_used
          \/ tokens[t].value > vouchers[v].value_limit

\* C11: when execute_transfer or create_offline_transaction rejects its
\* arguments, the call fails and no wallet, token, voucher, stored transfer,
\* offline transfer, AML registry entry or ledger entry is created or changed.
C11_RejectionChangesNothing ==
    [][\A a \in TransferArgs :
        /\ Called({"execute_transfer", "create_offline_transaction"})
        /\ Rejected(a[1], a[2], a[3], a[4])
        /\ \/ execute_transfer(a[1], a[2], a[3], a[4])
           \/ create_offline_transaction(a[1], a[2], a[3], a[4])
        => /\ ~last_call'.ok
           /\ UNCHANGED <<wallets, tokens, vouchers, transactions,
                          offline_transactions, aml_registry,
                          authority_contacted, entries, entry_counter,
                          ledger_file>>]_vars

\* execute_transfer has just rejected a call that named a used voucher, and
\* no execute_transfer call has passed validation so far.
C11_Witness ==
    /\ last_call = Returned("execute_transfer", FALSE, None)
    /\ uuids.tx = 0
    /\ \E v \in DOMAIN vouchers : vouchers[v].is_used
    /\ DOMAIN tokens # {}

\* C12: sign_offline_transaction(id, w, signature) returns True exactly when
\* id is an offline transaction, w is its sender or receiver and signature is
\* w's signature over the canonical payload; it then stores the signature in
\* w's slot and changes nothing else but the status, which is signed exactly
\* when both slots are filled; in every other case (unknown id, unknown
\* wallet, a wallet that is no party even with its own valid signature, a
\* wrong signature) it returns False and changes nothing.
C12_SignAcceptsParties ==
    [][\A id \in OfflineArgs, w \in DOMAIN wallets \cup {"w0"} :
        \A signature \in SignatureArgs(id) :
          sign_offline_transaction(id, w, signature)
            => LET known == id \in DOMAIN offline_transactions
                   otx == offline_transactions[id]
                   after == offline_transactions'[id]
                   accepted ==
                       /\ known
                       /\ w \in DOMAIN wallets
                       /\ w \in {otx.sender_wallet_id, otx.receiver_wallet_id}
                       /\ signature = sign_transaction(w, offline_payload(otx))
                   both == /\ after.sender_signature # NoSignature
                           /\ after.receiver_signature # NoSignature
               IN
               /\ last_call'.ok <=> accepted
               /\ UNCHANGED <<wallets, tokens, vouchers, transactions,
                              aml_registry, entries, entry_counter, ledger_file>>
               /\ ~accepted => UNCHANGED offline_transactions
               /\ accepted =>
                    /\ IF w = otx.sender_wallet_id
                       THEN /\ after.sender_signature = signature
                            /\ after.receiver_signature = otx.receiver_signature
                       ELSE /\ after.receiver_signature = signature
                            /\ after.sender_signature = otx.sender_signature
                    /\ IF both THEN after.status = "signed"
                       ELSE after.status = "pending"
                    /\ after = [otx EXCEPT
                                   !.sender_signature = after.sender_signature,
                                   !.receiver_signature = after.receiver_signature,
                                   !.status = after.status]]_vars

\* sign_offline_transaction has just returned False while a third wallet,
\* party to no offline transaction, exists beside a pending offline
\* transaction that holds one signature.
C12_Witness ==
    /\ last_call = Returned("sign_offline_transaction", FALSE, None)
    /\ \E id \in DOMAIN offline_transactions, w \in DOMAIN wallets :
        /\ w \notin {offline_transactions[id].sender_wallet_id,
                     offline_transactions[id].receiver_wallet_id}
        /\ offline_transactions[id].status = "pending"
        /\ offline_transactions[id].sender_signature # NoSignature

\* C13: create_offline_transaction and sign_offline_transaction leave token
\* ownership, every wallet's token set and voucher count, every voucher and
\* the ledger unchanged; the record create_offline_transaction adds is
\* pending, unsigned, and carries the value its token has at that moment.
C13_OfflineDefersEffects ==
    [][Called({"create_offline_transaction", "sign_offline_transaction"})
        => /\ UNCHANGED <<tokens, wallets, vouchers, entries, entry_counter,
                          ledger_file>>
           /\ \A id \in DOMAIN offline_transactions' \ DOMAIN offline_transactions :
                LET otx == offline_transactions'[id] IN
                /\ Called({"create_offline_transaction"})
                /\ otx.status = "pending"
                /\ otx.sender_signature = NoSignature
                /\ otx.receiver_signature = NoSignature
                /\ otx.value = tokens[otx.token_id].value
                /\ otx.is_anonymous = Truthy(otx.voucher_id)]_vars

\* sign_offline_transaction has just completed the signing of an offline
\* transaction that names a voucher: the voucher is still unused and the
\* token still with the sender.
C13_Witness ==
    /\ last_call = Returned("sign_offline_transaction", TRUE, None)
    /\ \E id \in DOMAIN offline_transactions :
        LET otx == offline_transactions[id] IN
        /\ otx.status = "signed"
        /\ Truthy(otx.voucher_id)
        /\ ~vouchers[otx.voucher_id].is_used
        /\ tokens[otx.token_id].owner_wallet_id = otx.sender_wallet_id
        /\ entries = <<>>

\* C14: sync_with_ledger on a signed offline transaction never leaves it
\* signed: it returns True with status synced, or returns False with status
\* failed, and when it returns False this call has appended no ledger entry
\* for the offline id.
C14_SyncSettlesOrFails ==
    [][\A id \in DOMAIN offline_transactions, written \in WriteOutcomes :
        /\ offline_transactions[id].status = "signed"
        /\ sync_with_ledger_writing(id, written)
        => \/ /\ last_call'.ok
              /\ offline_transactions'[id].status = "synced"
           \/ /\ ~last_call'.ok
              /\ offline_transactions'[id].status = "failed"
              /\ EntriesOf(entries', id) = EntriesOf(entries, id)]_vars

\* Thread p's call has passed validation and constructed its Transaction.
Validated(f) == f.pc \notin {"idle", "rejected"}

\* C15: every execute_transfer call that passes validation ends with its
\* transfer completed (returned and stored) or failed (raised); none is left
\* pending, and a transfer whose status has been set to completed is never
\* afterwards set to failed, including when the ledger append raises.
C15_CompletedStaysCompleted ==
    [][\A p \in Procs :
        /\ Validated(frames'[p]) /\ frames'[p].pc = "done"
             => LET tx == frames'[p].transaction IN
                \/ tx.status = "failed"
                \/ /\ tx.status = "completed"
                   /\ tx.transaction_id \in DOMAIN transactions'
        /\ Validated(frames[p]) /\ frames[p].transaction.status = "completed"
             => frames'[p].transaction.status = "completed"]_vars

\* 1 when the condition holds, 0 otherwise.
Indicator(b) == IF b THEN 1 ELSE 0

\* C16: check_transaction returns riskScore = 0.7*[value > 100] +
\* 0.3*[not anonymous] + 0.5*[pattern predicate] (in tenths), whatever the
\* AML registry holds, so that equal inputs give equal results; the status
\* is flagged exactly when the score is at least 0.5, approved otherwise,
\* and requires_escalation is true exactly when the score is at least 0.8.
C16_ScoreIsPure ==
    [][\A transaction \in CheckTransactions, value \in CheckValues :
        check_transaction_call(transaction, value)
            => LET result == last_call'.ret
                   score == HighValueWeight * Indicator(value > HighValueThreshold)
                          + NonAnonymousWeight * Indicator(~transaction.is_anonymous)
                          + PatternWeight
                                * Indicator(check_suspicious_patterns(transaction))
               IN
               /\ result.risk_score = score
               /\ result.status = IF score >= FlaggedThreshold THEN "flagged"
                                  ELSE "approved"
               /\ result.requires_escalation = (score >= EscalationThreshold)]_vars

\* check_transaction has just scored a value exactly at the threshold while
\* the AML registry already held an entry: approved, score 0.3.
C16_Witness ==
    /\ last_call.op = "check_transaction"
    /\ last_call.ret.risk_score = NonAnonymousWeight
    /\ last_call.ret.status = "approved"
    /\ Len(aml_registry) > 0

\* C17: a check_transaction call appends exactly one AML entry, for the
\* checked transfer, when its result is flagged and none when it is
\* approved; the appended entry has escalated = authority_notified =
\* (riskScore >= 0.8); and every step of every operation leaves the entries
\* already in the registry in place and unchanged.
C17_RegistryAppendOnly ==
    [][/\ \A transaction \in CheckTransactions, value \in CheckValues :
            check_transaction_call(transaction, value)
                => IF last_call'.ret.status = "flagged"
                   THEN /\ Len(aml_registry') = Len(aml_registry) + 1
                        /\ LET entry == aml_registry'[Len(aml_registry')] IN
                           /\ entry.transaction_id = transaction.transaction_id
                           /\ entry.risk_score = last_call'.ret.risk_score
                           /\ entry.escalated
                                  = (entry.risk_score >= EscalationThreshold)
                           /\ entry.authority_notified = entry.escalated
                   ELSE aml_registry' = aml_registry
       /\ Len(aml_registry') >= Len(aml_registry)
       /\ \A i \in 1..Len(aml_registry) : aml_registry'[i] = aml_registry[i]]_vars

\* A check_transaction call has just appended an escalated entry behind a
\* flagged one that was not escalated.
C17_Witness ==
    /\ last_call.op = "check_transaction"
    /\ last_call.ret.requires_escalation
    /\ Len(aml_registry) = 2
    /\ ~aml_registry[1].escalated
    /\ aml_registry[2].escalated /\ aml_registry[2].authority_notified

\* C18: check_transaction returns is_approved = true for every score, and an
\* execute_transfer whose arguments pass validation completes (token owned
\* by the receiver, voucher used by the transfer, one ledger entry appended,
\* transfer stored with status completed) whether its score is approved,
\* flagged or escalated.
C18_FlaggingNeverBlocks ==
    [][/\ \A transaction \in CheckTransactions, value \in CheckValues :
            check_transaction_call(transaction, value)
                => last_call'.ret.is_approved
       /\ \A s \in DOMAIN wallets, r \in DOMAIN wallets, t \in DOMAIN tokens,
            v \in VoucherArgs :
            execute_transfer(s, r, t, v) /\ ~Rejected(s, r, t, v)
                => /\ last_call'.ok
                   /\ LET id == last_call'.ret IN
                      /\ id \in DOMAIN transactions'
                      /\ check_transaction(transactions'[id],
                                           tokens[t].value).is_approved
                      /\ transactions'[id].status = "completed"
                      /\ tokens'[t].owner_wallet_id = r
                      /\ Truthy(v) => /\ vouchers'[v].is_used
                                      /\ vouchers'[v].used_in_transaction = id
                      /\ Cardinality(EntriesOf(entries', id)) = 1
                      /\ EntriesOf(entries, id) = {}]_vars

\* execute_transfer has just completed a transfer whose check was escalated
\* to the authority.
C18_Witness ==
    /\ last_call.op = "execute_transfer" /\ last_call.ok
    /\ transactions[last_call.ret].status = "completed"
    /\ transactions[last_call.ret].aml_flagged
    /\ Len(aml_registry) > 0
    /\ aml_registry[Len(aml_registry)].transaction_id = last_call.ret
    /\ aml_registry[Len(aml_registry)].authority_notified
    /\ tokens[transactions[last_call.ret].token_id].owner_wallet_id
           = transactions[last_call.ret].receiver_wallet_id

\* The numbers of the entry ids in a ledger.
EntryNumbers(es) == {entry_number(es[x].entry_id) : x \in DOMAIN es}

\* C19: every store_transaction call, made by a client or by a transfer,
\* files its entry under an id strictly greater than every id already in the
\* ledger, the ids loaded from the persisted file included, so that no id is
\* used twice; and every step of every operation, a start-up from the file
\* included, leaves the entries already in the ledger in place and unchanged.
C19_EntryIdsIncrease ==
    [][/\ Called({"store_transaction", "execute_transfer"}) /\ last_call'.ok
            => \E x \in DOMAIN entries' \ DOMAIN entries :
                  /\ DOMAIN entries' = DOMAIN entries \cup {x}
                  /\ entries'[x].entry_id = x
                  /\ \A n \in EntryNumbers(entries) : entry_number(x) > n
       /\ \A x \in DOMAIN entries :
             x \in DOMAIN entries' /\ entries'[x] = entries[x]]_vars

\* store_transaction has just filed entry 1 in a ledger that held entry 0,
\* and a start-up from the file would resume at the counter in use.
C19_Witness ==
    /\ last_call.op = "store_transaction" /\ last_call.ok
    /\ last_call.ret = "1"
    /\ DOMAIN entries = {"0", "1"}
    /\ entry_counter = load_ledger_counter(ledger_file)

\* C20: whenever store_transaction has returned successfully (the transfer
\* or synchronisation that called it succeeded), the ledger file holds
\* exactly the entries held in memory, and a LedgerManager created from that
\* file has the same entries and a next entry id greater than all of them;
\* and when the calling operation failed, store_transaction having raised on
\* the write included, memory holds no entry the file lacks.
C20_FileMatchesMemory ==
    [][Called({"execute_transfer", "sync_with_ledger"})
        => IF last_call'.ok
           THEN /\ ledger_file'.entries = entries'
                /\ load_ledger_entries(ledger_file') = entries'
                /\ \A n \in EntryNumbers(entries') :
                      load_ledger_counter(ledger_file') > n
           ELSE \A x \in DOMAIN entries' : x \in DOMAIN ledger_file'.entries]_vars

\* The ledgers that differ from es in one field of one entry.
AlteredLedgers(es) ==
    UNION {{[es EXCEPT ![x].value = @ + 1],
            [es EXCEPT ![x].is_anonymous = ~@],
            [es EXCEPT ![x].entry_type = IF @ = "aml_flagged" THEN "anonymous"
                                         ELSE "aml_flagged"],
            [es EXCEPT ![x].timestamp = Now("other")],
            [es EXCEPT ![x].receiver_wallet_id = "w0"],
            [es EXCEPT ![x].metadata.status = "failed"]} : x \in DOMAIN es}

\* C21: get_ledger_hash depends only on the ledger entries and their field
\* values: a step that leaves the entries as they are (a start-up from the
\* file included) leaves the digest as it is, a step that appends an entry
\* changes it, a change to any one field of an existing entry would change
\* it, and asking for the digest returns it and, like a query, changes no
\* ledger state.
C21_DigestFollowsEntries ==
    [][/\ (get_ledger_hash(entries') = get_ledger_hash(entries))
              <=> (entries' = entries)
       /\ \A altered \in AlteredLedgers(entries') :
              get_ledger_hash(altered) # get_ledger_hash(entries')
       /\ Called({"get_ledger_hash"})
              => last_call'.ret = get_ledger_hash(entries)
       /\ Called({"get_ledger_hash", "query_ledger"})
              => UNCHANGED <<ledger_vars, wallets, tokens, vouchers,
                             transactions, compliance_vars>>]_vars

\* The digest of a ledger of two entries has just been returned.
C21_Witness ==
    /\ last_call.op = "get_ledger_hash"
    /\ Cardinality(DOMAIN entries) = 2
    /\ last_call.ret = get_ledger_hash(entries)
    /\ Len(last_call.ret.sha256) = 2

\* The class the claim gives a transfer.
ClassOf(transaction) ==
    CHOOSE class \in {"aml_flagged", "anonymous", "non_anonymous"} :
        /\ class = "aml_flagged" <=> transaction.aml_flagged
        /\ class = "anonymous"
               <=> (~transaction.aml_flagged /\ transaction.is_anonymous)

\* C22: store_transaction, called by a client or by a transfer, files every
\* entry in exactly one class: AML-flagged if the transfer is AML-flagged,
\* anonymous or not, otherwise anonymous if the transfer is anonymous,
\* otherwise non-anonymous; so no anonymous transfer is filed non-anonymous
\* and no flagged transfer is filed anonymous.
C22_OneClassPerEntry ==
    [][/\ \A transaction \in StoreTransactions :
            store_transaction(transaction)
                => LET entry == entries'[last_call'.ret] IN
                   /\ entry.entry_type = ClassOf(transaction)
                   /\ transaction.is_anonymous
                          => entry.entry_type # "non_anonymous"
                   /\ transaction.aml_flagged => entry.entry_type # "anonymous"
       /\ Called({"execute_transfer"}) /\ last_call'.ok
            => \A x \in EntriesOf(entries', last_call'.ret) :
                  entries'[x].entry_type = ClassOf(transactions'[last_call'.ret])]_vars

\* store_transaction has just filed an anonymous, AML-flagged transfer as
\* AML-flagged.
C22_Witness ==
    /\ last_call.op = "store_transaction"
    /\ last_call.ret \in DOMAIN entries
    /\ entries[last_call.ret].is_anonymous
    /\ entries[last_call.ret].entry_type = "aml_flagged"

\* The unused vouchers issued to wallet w.
UnusedVouchers(vs, w) ==
    {v \in DOMAIN vs : vs[v].issued_to_wallet_id = w /\ ~vs[v].is_used}

\* C23: after every step of voucher issue, voucher redeem, execute_transfer
\* and offline create, sign and sync, each wallet's voucher count equals the
\* number of unused vouchers issued to it, hence is never negative; a
\* successful redeem_voucher lowers the issuing wallet's count by exactly
\* one and changes no other count, and a failing one changes none.
C23_VoucherCountMatches ==
    [][/\ \A w \in DOMAIN wallets' :
            /\ wallets'[w].voucher_balance
                   = Cardinality(UnusedVouchers(vouchers', w))
            /\ wallets'[w].voucher_balance >= 0
       /\ \A v \in DOMAIN vouchers \cup {"v0"}, value \in TokenValues :
            redeem_voucher(v, "ext", value)
                => \A w \in DOMAIN wallets :
                      wallets'[w].voucher_balance
                          = IF last_call'.ok /\ vouchers[v].issued_to_wallet_id = w
                            THEN wallets[w].voucher_balance - 1
                            ELSE wallets[w].voucher_balance]_vars

\* A wallet holds two vouchers of which one has just been redeemed.
C23_Witness ==
    /\ last_call.op = "redeem_voucher" /\ last_call.ok
    /\ \E w \in DOMAIN wallets :
          /\ wallets[w].voucher_balance = 1
          /\ Cardinality({v \in DOMAIN vouchers :
                             vouchers[v].issued_to_wallet_id = w}) = 2

C25_IssuanceContract ==
    [][/\ \A value \in TokenValues \cup {0, -1}, owner \in WalletArgs :
            issue_token_upto(MaxWalletTokens, value, owner)
                => IF owner \notin DOMAIN wallets \/ value <= 0
                   THEN /\ ~last_call'.ok
                        /\ tokens' = tokens /\ wallets' = wallets
                        /\ vouchers' = vouchers
                   ELSE /\ last_call'.ok
                        /\ \E t \in DOMAIN tokens' \ DOMAIN tokens :
                              /\ DOMAIN tokens' = DOMAIN tokens \cup {t}
                              /\ tokens'[t].owner_wallet_id = owner
                              /\ tokens'[t].value = value
                              /\ wallets'[owner].token_balance
                                     = wallets[owner].token_balance \cup {t}
                              /\ t \notin wallets[owner].token_balance
                        /\ \A u \in DOMAIN tokens : tokens'[u] = tokens[u]
                        /\ \A w \in DOMAIN wallets \ {owner} :
                              wallets'[w] = wallets[w]
                        /\ vouchers' = vouchers
       /\ \A w \in WalletArgs, limit \in VoucherLimits \cup {0, -1} :
            issue_voucher_upto(MaxWalletVouchers, w, limit)
                => IF w \notin DOMAIN wallets \/ limit <= 0
                   THEN /\ ~last_call'.ok
                        /\ vouchers' = vouchers /\ wallets' = wallets
                        /\ tokens' = tokens
                   ELSE /\ last_call'.ok
                        /\ \E v \in DOMAIN vouchers' \ DOMAIN vouchers :
                              /\ DOMAIN vouchers' = DOMAIN vouchers \cup {v}
                              /\ vouchers'[v].issued_to_wallet_id = w
                              /\ vouchers'[v].value_limit = limit
                              /\ ~vouchers'[v].is_used
                        /\ \A u \in DOMAIN vouchers : vouchers'[u] = vouchers[u]
                        /\ wallets'[w].voucher_balance
                               = wallets[w].voucher_balance + 1
                        /\ wallets'[w].token_balance = wallets[w].token_balance
                        /\ \A x \in DOMAIN wallets \ {w} : wallets'[x] = wallets[x]
                        /\ tokens' = tokens]_vars

\* A second token has just been issued to a wallet that holds a voucher.
C25_Witness ==
    /\ last_call.op = "issue_token" /\ last_call.ok
    /\ Cardinality(DOMAIN tokens) = 2
    /\ tokens[last_call.ret].owner_wallet_id \in DOMAIN wallets
    /\ last_call.ret \in wallets[tokens[last_call.ret].owner_wallet_id].token_balance
    /\ wallets[tokens[last_call.ret].owner_wallet_id].voucher_balance > 0

\* The transfers settled without a voucher: the ids of the completed online
\* transfers and of the synced offline transfers that name no voucher.
SettledWithoutVoucher ==
    {id \in DOMAIN transactions :
        transactions[id].status = "completed"
            /\ ~Truthy(transactions[id].voucher_id)}
    \cup {id \in DOMAIN offline_transactions :
             offline_transactions[id].status = "synced"
                 /\ ~Truthy(offline_transactions[id].voucher_id)}

\* C26: every settled transfer that spent no voucher, completed online or
\* synced offline, has a ledger entry, and each of its entries is classified
\* non-anonymous or AML-flagged and is part of the AML export (the
\* non-anonymous entries plus the AML-flagged entries).
C26_NoVoucherIsAuditable ==
    \A id \in SettledWithoutVoucher :
        /\ EntriesOf(entries, id) # {}
        /\ \A x \in EntriesOf(entries, id) :
              /\ entries[x].entry_type \in {"non_anonymous", "aml_flagged"}
              /\ to_dict(entries[x])
                     \in Range(export_aml_loggable_transactions(entries))

\* An offline transfer without a voucher has just been synced while the
\* ledger also holds an entry of an online transfer.
C26_Witness ==
    /\ last_call.op = "sync_with_ledger" /\ last_call.ok
    /\ Cardinality(SettledWithoutVoucher) = 2
    /\ Cardinality(DOMAIN entries) = 2

\* The transfers settled with a voucher: the ids of the completed online
\* transfers and of the synced offline transfers that spent one.
SettledWithVoucher ==
    {id \in DOMAIN transactions :
        transactions[id].status = "completed"
            /\ Truthy(transactions[id].voucher_id)}
    \cup {id \in DOMAIN offline_transactions :
             offline_transactions[id].status = "synced"
                 /\ Truthy(offline_transactions[id].voucher_id)}

\* C27: no settled transfer that spent a voucher is identified to auditors:
\* whatever its value up to the voucher's limit, the AML export holds no
\* entry of that transfer, and so none carrying its sender and receiver
\* wallet ids.
C27_VoucherIsUnidentified ==
    \A id \in SettledWithVoucher :
        \A x \in EntriesOf(entries, id) :
            to_dict(entries[x]) \notin Range(export_aml_loggable_transactions(entries))

\* C28: signing is a pure function of the payload and the wallet's private
\* key: sign_transaction returns the digest of exactly that payload and that
\* key and changes no state, so that equal payloads on the same wallet give
\* equal signatures, and verify_signature(payload, s) on a wallet is true
\* exactly when s is what sign_transaction(payload) returns on that wallet.
C28_SigningIsPure ==
    [][/\ \A w \in DOMAIN wallets, data \in Payloads :
            sign_transaction_call(w, data)
                => /\ last_call'.ret.data = data
                   /\ last_call'.ret.key = PrivateKey(w)
                   /\ \A u \in DOMAIN wallets :
                          (sign_transaction(u, data) = last_call'.ret) <=> (u = w)
                   /\ UNCHANGED <<wallets, tokens, vouchers, transactions,
                                  compliance_vars, ledger_vars,
                                  offline_transactions>>
       /\ \A w \in DOMAIN wallets, data \in Payloads :
            \A signature \in Signatures(data) :
                verify_signature_call(w, data, signature)
                    => /\ last_call'.ok
                           <=> (signature.data = data /\ signature.key = PrivateKey(w))
                       /\ UNCHANGED <<wallets, tokens, vouchers, transactions,
                                      compliance_vars, ledger_vars,
                                      offline_transactions>>]_vars

\* verify_signature has just accepted a signature in a system of three
\* wallets, where two other wallets' signatures of the payload exist.
C28_Witness ==
    /\ last_call.op = "verify_signature" /\ last_call.ok
    /\ Cardinality(DOMAIN wallets) = 3
    /\ Payloads # {}

\* sync_with_ledger(id) will move the token and then find the voucher spent:
\* the offline transaction is signed, its sender still owns the token, both
\* wallets exist, and the voucher it names has been used since it was
\* validated at creation.
MovesThenFailsToRedeem(id) ==
    LET otx == offline_transactions[id] IN
    /\ otx.status = "signed"
    /\ otx.token_id \in DOMAIN tokens
    /\ tokens[otx.token_id].owner_wallet_id = otx.sender_wallet_id
    /\ otx.sender_wallet_id \in DOMAIN wallets
    /\ otx.receiver_wallet_id \in DOMAIN wallets
    /\ Truthy(otx.voucher_id)
    /\ otx.voucher_id \in DOMAIN vouchers
    /\ vouchers[otx.voucher_id].is_used

\* C29: execution-phase failures are not rolled back: when sync_with_ledger
\* has moved the token and the voucher redemption then fails because the
\* voucher was consumed after validation, the call returns False, the
\* offline transaction is marked failed, the token stays owned by the
\* receiver, the voucher's used flag and consuming-transfer id are as
\* before, and no ledger entry is appended.
C29_FailureKeepsPartialEffects ==
    [][\A id \in DOMAIN offline_transactions :
        sync_with_ledger(id) /\ MovesThenFailsToRedeem(id)
            => LET otx == offline_transactions[id] IN
               /\ ~last_call'.ok
               /\ offline_transactions'[id].status = "failed"
               /\ tokens'[otx.token_id].owner_wallet_id = otx.receiver_wallet_id
               /\ otx.token_id \in wallets'[otx.receiver_wallet_id].token_balance
               /\ otx.token_id \notin wallets'[otx.sender_wallet_id].token_balance
               /\ vouchers' = vouchers
               /\ entries' = entries
               /\ ledger_file' = ledger_file]_vars

\* sync_with_ledger has just failed on a voucher spent elsewhere, leaving
\* the token with the receiver.
C29_Witness ==
    /\ last_call.op = "sync_with_ledger" /\ ~last_call.ok
    /\ \E id \in DOMAIN offline_transactions :
          LET otx == offline_transactions[id] IN
          /\ otx.status = "failed"
          /\ Truthy(otx.voucher_id)
          /\ vouchers[otx.voucher_id].used_in_transaction # id
          /\ tokens[otx.token_id].owner_wallet_id = otx.receiver_wallet_id
          /\ EntriesOf(entries, id) = {}

\* The entries that pass the filters a query supplies, as the intersection
\* of the single-filter queries: the class, the wallet, the value range and
\* the date range, a range with one bound being open at its other end.
FilteredBy(es, query_params) ==
    LET has(key) == key \in DOMAIN query_params
        all == Range(entries_values(es))
        by_type == IF has("entry_type")
                   THEN Range(get_non_anonymous_entries(es))
                   ELSE all
        by_wallet == IF has("wallet_id")
                     THEN Range(get_entries_by_wallet(es, query_params["wallet_id"]))
                     ELSE all
        lowest == 0
        highest == Max(TokenValues)
        by_value == IF has("min_value") \/ has("max_value")
                    THEN Range(get_entries_by_value_range(es,
                             IF has("min_value") THEN query_params["min_value"]
                             ELSE lowest,
                             IF has("max_value") THEN query_params["max_value"]
                             ELSE highest))
                    ELSE all
        by_date == IF has("start_date") \/ has("end_date")
                   THEN Range(get_entries_by_date_range(es,
                            IF has("start_date") THEN query_params["start_date"]
                            ELSE EventTimes[1],
                            IF has("end_date") THEN query_params["end_date"]
                            ELSE EventTimes[Len(EventTimes)]))
                   ELSE all
    IN by_type \cap by_wallet \cap by_value \cap by_date

\* C30: query_ledger with any combination of the filters entry type, wallet
\* id, value range and timestamp range returns exactly the entries that pass
\* every supplied filter, the intersection of the results of the
\* single-filter queries, also when a range comes with one of its two bounds.
C30_QueryIsIntersection ==
    [][\A query_params \in QueryParams :
        query_ledger_call(query_params)
            => Range(last_call'.ret) = FilteredBy(entries, query_params)]_vars

\* C31: the ledger holds at most one entry per transfer id: no online
\* transfer id and no offline transfer id is recorded twice, whatever
\* sequence of execute_transfer, sign_offline_transaction and
\* sync_with_ledger calls is made, re-signing and re-syncing an offline
\* transfer after the token has returned to its sender included.
C31_OneEntryPerTransfer ==
    \A x \in DOMAIN entries, y \in DOMAIN entries :
        entries[x].transaction_id = entries[y].transaction_id => x = y

\* The ledger entries that carry a voucher id.
VoucherEntries(es) == {x \in DOMAIN es : Truthy(es[x].metadata.voucher_id)}

\* C32: exactly-once voucher use holds at the ledger level across the online
\* and the offline pipeline: no two ledger entries carry the same voucher
\* id, and every ledger entry that carries a voucher id refers to a voucher
\* that is used and whose used_in_transaction is that entry's transfer id.
C32_VoucherOncePerLedger ==
    /\ \A x \in VoucherEntries(entries), y \in VoucherEntries(entries) :
          entries[x].metadata.voucher_id = entries[y].metadata.voucher_id
              => x = y
    /\ \A x \in VoucherEntries(entries) :
          LET v == entries[x].metadata.voucher_id IN
          /\ v \in DOMAIN vouchers
          /\ vouchers[v].is_used
          /\ vouchers[v].used_in_transaction = entries[x].transaction_id

\* An offline transfer that spent a voucher has been synced, re-signed and
\* synced again without success: the ledger still holds its one entry.
C32_Witness ==
    /\ last_call.op = "sync_with_ledger" /\ ~last_call.ok
    /\ \E id \in DOMAIN offline_transactions :
          /\ offline_transactions[id].status = "failed"
          /\ Truthy(offline_transactions[id].voucher_id)
          /\ vouchers[offline_transactions[id].voucher_id].used_in_transaction = id
          /\ Cardinality(EntriesOf(entries, id)) = 1

\* Offline transaction id is signed while another offline transaction of the
\* same sender over the same token has been synced and the token is not
\* with that sender.
DoubleSpent(id) ==
    LET otx == offline_transactions[id] IN
    /\ otx.status = "signed"
    /\ tokens[otx.token_id].owner_wallet_id # otx.sender_wallet_id
    /\ \E other \in DOMAIN offline_transactions \ {id} :
          /\ offline_transactions[other].sender_wallet_id = otx.sender_wallet_id
          /\ offline_transactions[other].token_id = otx.token_id
          /\ offline_transactions[other].status = "synced"

\* C33: offline double-spend is resolved at sync: sync_with_ledger succeeds
\* only while the sender owns the token, so of several signed offline
\* transfers of one sender over one token at most one is synced unless the
\* token comes back; the sync of every other one returns false, marks it
\* failed and changes no token, wallet, voucher or ledger state.
C33_DoubleSpendResolvedAtSync ==
    [][\A id \in DOMAIN offline_transactions :
        sync_with_ledger(id)
            => LET otx == offline_transactions[id] IN
               /\ last_call'.ok
                      => tokens[otx.token_id].owner_wallet_id = otx.sender_wallet_id
               /\ DoubleSpent(id)
                      => /\ ~last_call'.ok
                         /\ offline_transactions'[id].status = "failed"
                         /\ tokens' = tokens /\ wallets' = wallets
                         /\ vouchers' = vouchers
                         /\ entries' = entries /\ ledger_file' = ledger_file]_vars

\* Of two offline transfers of one sender over one token, one is synced and
\* the sync of the other has just failed.
C33_Witness ==
    /\ last_call.op = "sync_with_ledger" /\ ~last_call.ok
    /\ \E a \in DOMAIN offline_transactions, b \in DOMAIN offline_transactions :
          /\ offline_transactions[a].status = "synced"
          /\ offline_transactions[b].status = "failed"
          /\ offline_transactions[a].sender_wallet_id
                 = offline_transactions[b].sender_wallet_id
          /\ offline_transactions[a].token_id = offline_transactions[b].token_id
          /\ Cardinality(DOMAIN entries) = 1

\* C34: the two representations of ownership agree between calls: for every
\* token t and wallet w, t's owner field is w if and only if t is in w's
\* token set, so get_tokens_by_owner(w) returns exactly the tokens in w's
\* token set.
C34_OwnerFieldMatchesSets ==
    /\ \A t \in DOMAIN tokens, w \in DOMAIN wallets :
          (tokens[t].owner_wallet_id = w) <=> (t \in wallets[w].token_balance)
    /\ \A w \in DOMAIN wallets :
          get_tokens_by_owner(tokens, w) = wallets[w].token_balance

\* A token has been handed on by transfer_token after an offline transfer
\* of it was synced, and its holder's token set is not empty.
C34_Witness ==
    /\ last_call.op = "transfer_token" /\ last_call.ok
    /\ \E id \in DOMAIN offline_transactions :
          offline_transactions[id].status = "synced"
    /\ \E w \in DOMAIN wallets :
          /\ wallets[w].token_balance # {}
          /\ get_tokens_by_owner(tokens, w) = wallets[w].token_balance

\* C35: every transfer stored in the TransactionEngine has status completed
\* and a non-empty signature; a transfer that fails during execution is
\* never stored, so get_failed_transactions returns nothing and
\* get_completed_transactions returns all stored transfers.
C35_StoredIsCompleted ==
    /\ \A id \in DOMAIN transactions :
          /\ transactions[id].status = "completed"
          /\ transactions[id].signature # NoSignature
    /\ get_failed_transactions(transactions) = {}
    /\ get_completed_transactions(transactions) = list_all_transactions(transactions)

\* An execute_transfer has just failed in its execution step, on the ledger
\* write, after moving the token: nothing is stored in the engine.
C35_Witness ==
    /\ last_call.op = "execute_transfer" /\ ~last_call.ok
    /\ DOMAIN entries # {}
    /\ \E x \in DOMAIN entries :
          entries[x].transaction_id \notin DOMAIN transactions
              \cup DOMAIN offline_transactions
    /\ get_failed_transactions(transactions) = {}

\* C36: in a sequential execution with ledger writes that succeed, an
\* execute_transfer call that passes validation never fails in its execution
\* step: it fails only by rejection, before the token is moved or the
\* voucher redeemed, and every call that is not rejected succeeds, so no
\* online transfer ever gets the status failed.
C36_ValidatedNeverFails ==
    [][\A a \in TransferArgs :
        execute_transfer(a[1], a[2], a[3], a[4])
            => /\ last_call'.ok <=> ~Rejected(a[1], a[2], a[3], a[4])
               /\ ~last_call'.ok
                      => /\ tokens' = tokens /\ wallets' = wallets
                         /\ vouchers' = vouchers /\ entries' = entries
               /\ \A id \in DOMAIN transactions' :
                      transactions'[id].status # "failed"]_vars

\* A transfer of a high value under a voucher has passed validation and
\* been executed to completion.
C36_Witness ==
    /\ last_call.op = "execute_transfer" /\ last_call.ok
    /\ transactions[last_call.ret].status = "completed"
    /\ transactions[last_call.ret].aml_flagged
    /\ Truthy(transactions[last_call.ret].voucher_id)
    /\ vouchers[transactions[last_call.ret].voucher_id].used_in_transaction
           = last_call.ret

\* The AML registry entries of one transfer id.
RegistryEntriesOf(id) ==
    {i \in DOMAIN aml_registry : aml_registry[i].transaction_id = id}

\* C37: in a sequential execution the AML registry and the ledger agree:
\* every AML entry created through execute_transfer has a transfer id with
\* exactly one ledger entry, and that entry is classified AML-flagged; every
\* ledger entry classified AML-flagged has exactly one AML registry entry
\* with the same transfer id.
C37_RegistryAgreesWithLedger ==
    /\ \A i \in DOMAIN aml_registry :
          LET es == EntriesOf(entries, aml_registry[i].transaction_id) IN
          /\ Cardinality(es) = 1
          /\ \A x \in es : entries[x].entry_type = "aml_flagged"
    /\ \A x \in DOMAIN entries :
          entries[x].entry_type = "aml_flagged"
              => Cardinality(RegistryEntriesOf(entries[x].transaction_id)) = 1

\* Two transfers have been flagged, one under a voucher and one without:
\* the registry has two entries and the ledger two AML-flagged entries.
C37_Witness ==
    /\ Len(aml_registry) = 2
    /\ aml_registry[1].transaction_id # aml_registry[2].transaction_id
    /\ Cardinality({x \in DOMAIN entries :
                       entries[x].entry_type = "aml_flagged"}) = 2
    /\ \E x \in DOMAIN entries, y \in DOMAIN entries :
          entries[x].is_anonymous /\ ~entries[y].is_anonymous

C39_StatusFollowsSignatures ==
    \A id \in DOMAIN offline_transactions :
        LET otx == offline_transactions[id] IN
        /\ otx.status \in {"signed", "synced"}
              => /\ otx.sender_signature # NoSignature
                 /\ otx.receiver_signature # NoSignature
                 /\ otx.sender_signature =
                        sign_transaction(otx.sender_wallet_id, offline_payload(otx))
                 /\ otx.receiver_signature =
                        sign_transaction(otx.receiver_wallet_id, offline_payload(otx))
        /\ otx.status = "pending"
              => \/ otx.sender_signature = NoSignature
                 \/ otx.receiver_signature = NoSignature

\* An offline transfer has been signed by both parties, each with a
\* signature of its own, and synced.
C39_Witness ==
    /\ last_call.op = "sync_with_ledger" /\ last_call.ok
    /\ \E id \in DOMAIN offline_transactions :
          /\ offline_transactions[id].status = "synced"
          /\ offline_transactions[id].sender_signature
                 # offline_transactions[id].receiver_signature
          /\ offline_transactions[id].receiver_signature # NoSignature

\* The sum over all wallets of get_total_value_by_owner.
RECURSIVE total_value(_, _)
total_value(tk, ws) ==
    IF ws = {} THEN 0
    ELSE LET w == CHOOSE u \in ws : TRUE IN
         get_total_value_by_owner(tk, w) + total_value(tk, ws \ {w})

\* C40: value is conserved: transfer_token, execute_transfer and offline
\* create/sign/sync never create or destroy a token and never change a
\* token's value, so the sum over all wallets of get_total_value_by_owner
\* stays constant under them and grows only through issue_token, by exactly
\* the issued value.
C40_ValueIsConserved ==
    [][/\ \A t \in DOMAIN tokens :
             t \in DOMAIN tokens' /\ tokens'[t].value = tokens[t].value
       /\ \A value \in TokenValues \cup {0, -1}, owner \in WalletArgs :
             issue_token_upto(MaxWalletTokens, value, owner)
                 => total_value(tokens', DOMAIN wallets')
                        = total_value(tokens, DOMAIN wallets)
                              + (IF last_call'.ok THEN value ELSE 0)
       /\ ~Called({"issue_token"})
             => /\ DOMAIN tokens' = DOMAIN tokens
                /\ total_value(tokens', DOMAIN wallets')
                       = total_value(tokens, DOMAIN wallets)]_vars

\* Two tokens of different values have been issued to one wallet and both
\* have ended with the other, one by an online transfer and one by a synced
\* offline transfer: that wallet's total is the sum of the two values.
C40_Witness ==
    /\ Cardinality(DOMAIN tokens) = 2
    /\ \E id \in DOMAIN transactions : transactions[id].status = "completed"
    /\ \E id \in DOMAIN offline_transactions :
          offline_transactions[id].status = "synced"
    /\ \E w \in DOMAIN wallets :
          /\ get_total_value_by_owner(tokens, w) = 50 + 150
          /\ total_value(tokens, DOMAIN wallets) = 50 + 150
====
